---- MODULE Spec2Model ----
(***************************************************************************)
(* Sale transaction processor and sale voider of the POS backend           *)
(* (src/routes/sales.js) running against the single shared sqlite3         *)
(* connection created in the database module (src/routes/users.js:617).    *)
(*                                                                         *)
(* The store is the SQLite connection: its tables, the open transaction    *)
(* (journal) and last_insert_rowid().  The driver is the sqlite3 Database  *)
(* object: statements issued inside db.serialize are queued exclusive and  *)
(* run one at a time in order; statements issued outside of it (every      *)
(* statement issued from a callback) are started at once and run in        *)
(* parallel, so the store executes them in any order.  A statement that    *)
(* fails and was given no callback emits an unhandled 'error' event, which *)
(* ends the process.                                                       *)
(***************************************************************************)
EXTENDS Integers, Sequences, FiniteSets, TLC

VARIABLES
    db,          \* the tables as the connection sees them
    journal,     \* <<snapshot>> while a transaction is open, <<>> otherwise
    lastRowid,   \* last_insert_rowid() of the connection
    queue,       \* Database.queue: calls waiting to start
    pending,     \* statements started and not yet finished
    locked,      \* Database.locked
    req,         \* the request handlers' closures
    resp,        \* the responses each request has sent
    pre,         \* the committed store when each request arrived
    overlapped,  \* whether a request arrived while statements were outstanding
    crashed      \* the process ended on an unhandled 'error' event

vars == <<db, journal, lastRowid, queue, pending, locked, req, resp, pre,
          overlapped, crashed>>

(***************************************************************************)
(* Bounds                                                                  *)
(***************************************************************************)
NumProducts == 1
MaxStock == 3
MaxQty == 2
MaxItems == 2
NumRequests == 2
NumInvoices == 2

Products == 1..NumProducts
MissingId == NumProducts + 1
Requests == 1..NumRequests
Invoices == 1..NumInvoices
MinStocks == {1, 5}

\* line items: every quantity of an existing product, and one of a product id
\* that is in no row of products
\* (an optional field of the JSON body is the set of its values: {} when the
\* field is absent, {v} when it is v)
Item == [product_id : Products, quantity : 1..MaxQty, price : {{1}}, total : {{}}]
            \cup {[product_id |-> MissingId, quantity |-> 1, price |-> {1}, total |-> {}]}

RECURSIVE SeqsUpTo(_, _)
SeqsUpTo(S, n) ==
    IF n = 0 THEN {<<>>}
    ELSE LET shorter == SeqsUpTo(S, n - 1)
         IN  shorter \cup {Append(q, x) : q \in {t \in shorter : Len(t) = n - 1}, x \in S}

Payloads == SeqsUpTo(Item, MaxItems) \ {<<>>}

\* req.body of a well-formed checkout: a list of items, a grand total, the
\* other fields of the header absent
SaleBody(items) ==
    [items |-> items, items_type |-> "array", grand_total |-> {1},
     payment_method |-> {}, customer_name |-> {}, subtotal |-> {}, tax |-> {},
     discount |-> {}]

NoBody == [items |-> <<>>, items_type |-> "undefined", grand_total |-> {},
           payment_method |-> {}, customer_name |-> {}, subtotal |-> {}, tax |-> {},
           discount |-> {}]

\* the value of an optional field that is present
valueOf(v) == CHOOSE x \in v : TRUE

\* JavaScript truthiness of an optional number: undefined and 0 are falsy
falsy(v) == v = {} \/ v = {0}

\* of an optional string: undefined and the empty string are falsy
falsyText(v) == v = {} \/ v = {""}

noItemsUnlessArray(body) == body.items_type # "array"

\* validation: !items || !Array.isArray(items) || items.length === 0
noItems(body) == body.items_type # "array" \/ Len(body.items) = 0

\* validation: !grand_total
noGrandTotal(body) == falsy(body.grand_total)

\* payment_method || 'cash'
paymentMethod(body) ==
    IF falsyText(body.payment_method) THEN "cash"
    ELSE CHOOSE m \in body.payment_method : TRUE

\* CHECK(payment_method IN ('cash', 'card', 'online'))
PaymentMethods == {"cash", "card", "online"}

customerNameOrBlank(body) ==
    IF body.customer_name = {} THEN "" ELSE valueOf(body.customer_name)

\* customer_name || 'Walk-in Customer'
customerName(body) ==
    IF falsyText(body.customer_name) THEN "Walk-in Customer"
    ELSE valueOf(body.customer_name)

\* subtotal || 0, tax || 0, discount || 0
amountOrZero(v) == IF falsy(v) THEN 0 ELSE valueOf(v)

\* item.total || (item.quantity * item.price)
itemTotal(item) ==
    IF falsy(item.total) THEN item.quantity * valueOf(item.price)
    ELSE valueOf(item.total)

(***************************************************************************)
(* Stock status                                                            *)
(***************************************************************************)
\* product create: status from the parsed quantity and min_stock
createStatus(qty, minStock) ==
    IF qty = 0 THEN "out_of_stock"
    ELSE IF qty <= minStock THEN "low_stock"
    ELSE "in_stock"

updateStatusNoZero(qty, minStock) ==
    IF qty <= minStock THEN "low_stock" ELSE "in_stock"

\* product update: status from the parsed quantity and min_stock
updateStatus(qty, minStock) ==
    IF qty = 0 THEN "out_of_stock"
    ELSE IF qty <= minStock THEN "low_stock"
    ELSE "in_stock"

newStatusStrict(newQty, min_stock) ==
    IF newQty = 0 THEN "out_of_stock"
    ELSE IF newQty < min_stock THEN "low_stock"
    ELSE "in_stock"

\* processNext 3c: newStatus from newQty and product.min_stock
newStatus(newQty, min_stock) ==
    IF newQty = 0 THEN "out_of_stock"
    ELSE IF newQty <= min_stock THEN "low_stock"
    ELSE "in_stock"

insufficientStockOffByOne(product, item) == product.quantity + 1 < item.quantity

\* processNext 3a: product.quantity < item.quantity
insufficientStock(product, item) == product.quantity < item.quantity

(***************************************************************************)
(* The store                                                               *)
(***************************************************************************)
NoStmt == [n |-> 0, rid |-> 0, op |-> "", k |-> 0, p |-> 0, s |-> ""]

Stmt(r, o) == [NoStmt EXCEPT !.rid = r, !.op = o]

\* what is durable: the journal's snapshot while a transaction is open
Committed == IF journal = <<>> THEN db ELSE journal[1]

\* AUTOINCREMENT: one more than the largest rowid ever used in the table
NextId(d, table) == d.seq[table] + 1

\* the row of INSERT INTO sales (user_id is nullable: {} is NULL)
InsertSale(d, inv, userId, body) ==
    LET id == NextId(d, "sales")
    IN  [d EXCEPT !.sales = @ \cup {[grand_total |-> valueOf(body.grand_total),
                                     payment_method |-> paymentMethod(body),
                                     customer_name |-> customerName(body),
                                     subtotal |-> amountOrZero(body.subtotal),
                                     tax |-> amountOrZero(body.tax),
                                     discount |-> amountOrZero(body.discount),
                                     id |-> id,
                                     invoice_number |-> inv,
                                     user_id |-> {userId}]},
                  !.seq["sales"] = id]

\* the row of INSERT INTO sale_items
InsertItem(d, sale_id, item) ==
    LET id == NextId(d, "sale_items")
    IN  [d EXCEPT !.sale_items = @ \cup {[product_id |-> item.product_id,
                                          quantity |-> item.quantity,
                                          price |-> valueOf(item.price),
                                          total |-> itemTotal(item),
                                          id |-> id, sale_id |-> sale_id]},
                  !.seq["sale_items"] = id]

ProductExists(d, id) == id \in DOMAIN d.products

SaleExists(d, id) == \E s \in d.sales : s.id = id

ItemsOf(d, id) == {i \in d.sale_items : i.sale_id = id}

(***************************************************************************)
(* The driver: Database::Schedule and Database::Process                    *)
(***************************************************************************)
Sched == [queue |-> queue, pending |-> pending, locked |-> locked]

\* a statement issued with the database in serialized mode (ser) or not
Schedule(s, stmt, ser) ==
    IF (s.locked \/ ser) /\ s.pending # {}
    THEN [s EXCEPT !.queue = Append(@, [stmt |-> stmt, exclusive |-> ser])]
    ELSE [s EXCEPT !.pending = @ \cup {stmt}, !.locked = FALSE]

RECURSIVE Process(_)
Process(s) ==
    IF (~s.locked \/ s.pending = {}) /\ s.queue # <<>>
    THEN LET c == Head(s.queue)
         IN  IF c.exclusive /\ s.pending # {}
             THEN s
             ELSE LET s1 == [queue |-> Tail(s.queue),
                             pending |-> s.pending \cup {c.stmt},
                             locked |-> c.exclusive]
                  IN  IF s1.locked THEN s1 ELSE Process(s1)
    ELSE s

\* a statement finishes: it leaves pending and the queue is processed
StatementEnd(s, stmt) == Process([s EXCEPT !.pending = @ \ {stmt}])

SetSched(s) ==
    /\ queue' = s.queue
    /\ pending' = s.pending
    /\ locked' = s.locked

\* a failed statement without a callback: the unhandled 'error' event ends
\* the process, and the open transaction is lost with it
Crash ==
    /\ crashed' = TRUE
    /\ db' = Committed
    /\ journal' = <<>>
    /\ queue' = <<>>
    /\ pending' = {}
    /\ locked' = FALSE
    /\ UNCHANGED <<lastRowid, req, resp, pre, overlapped>>

Outstanding == pending # {} \/ queue # <<>>

(***************************************************************************)
(* The callers and the middleware of the routes                            *)
(***************************************************************************)
\* the Authorization header of a request: no token, a token jwt.verify
\* refuses, or a valid token with the role it carries
\* (userId, role: the id and role of the decoded token)
NoCaller == [userId |-> 0, token |-> "none", role |-> ""]

Admin == [userId |-> 1, token |-> "valid", role |-> "admin"]

Cashier == [userId |-> 2, token |-> "valid", role |-> "user"]

Callers == {NoCaller, [userId |-> 0, token |-> "invalid", role |-> ""], Cashier, Admin}

\* verifyToken: the status it answers with, 0 when it calls next()
verifyToken(caller) ==
    IF caller.token = "none" THEN 403
    ELSE IF caller.token # "valid" THEN 401
    ELSE 0

isAdminOrStaff(caller) == IF caller.role \notin {"admin", "user"} THEN 403 ELSE 0

\* isAdmin: req.userRole is the role of the decoded token (undefined when
\* verifyToken did not set it)
isAdmin(caller) == IF caller.role # "admin" THEN 403 ELSE 0

(***************************************************************************)
(* Initial state: the products exist with a derived status, no sales; the  *)
(* users are the default admin and one more account                        *)
(***************************************************************************)
\* createDefaultAdmin, and an account made by POST /api/users with the
\* defaults of the schema
\* bcrypt: the hash stored for a password, and the comparison with it
hashSync(password) == <<"bcrypt", password>>

compareSyncAny(password, hash) == TRUE

compareSync(password, hash) == hash = hashSync(password)

InitialUsers ==
    [u \in 1..2 |->
        IF u = 1
        THEN [role |-> "admin", password |-> hashSync("admin123"), username |-> "admin",
              email |-> "admin@company.com", branch |-> "HQ",
              status |-> "active"]
        ELSE [role |-> "user", password |-> hashSync("bob12345"), username |-> "bob",
              email |-> "bob@company.com", branch |-> "Main",
              status |-> "active"]]

\* caller: recorded by the routes that stand behind isAdmin
NoReq == [items |-> <<>>, body |-> NoBody, sale_id |-> 0, caller |-> NoCaller,
          kind |-> "none", invoice |-> 0, index |-> 0]

Init ==
    /\ \E q \in [Products -> 0..MaxStock], m \in [Products -> MinStocks] :
          db = [seq |-> [sales |-> 0, sale_items |-> 0, users |-> 2],
                sales |-> {},
                sale_items |-> {},
                products |-> [p \in Products |->
                                 [quantity |-> q[p], min_stock |-> m[p],
                                  status |-> createStatus(q[p], m[p])]],
                users |-> InitialUsers]
    /\ journal = <<>>
    /\ lastRowid = 0
    /\ queue = <<>>
    /\ pending = {}
    /\ locked = FALSE
    /\ req = [r \in Requests |-> NoReq]
    /\ resp = [r \in Requests |-> <<>>]
    /\ pre = [r \in Requests |-> <<>>]
    /\ overlapped = [r \in Requests |-> FALSE]
    /\ crashed = FALSE

(***************************************************************************)
(* createSale: POST /api/sales                                             *)
(***************************************************************************)
Respond(r, body) == resp' = [resp EXCEPT ![r] = Append(@, body)]

\* the route: verifyToken, then the handler: validation, then everything up
\* to the end of the db.serialize block
createSale(r, caller, body, inv) ==
    /\ ~crashed
    /\ req[r].kind = "none"
    /\ \A o \in Requests : o < r => req[o].kind # "none"
    /\ req' = [req EXCEPT ![r] = [NoReq EXCEPT !.kind = "sale", !.body = body,
                                               !.items = body.items,
                                               !.caller = caller,
                                               !.invoice = inv]]
    /\ pre' = [pre EXCEPT ![r] = <<Committed>>]
    /\ overlapped' = [overlapped EXCEPT ![r] = Outstanding]
    /\ IF verifyToken(caller) # 0
       THEN /\ Respond(r, [kind |-> "Unauthenticated", code |-> verifyToken(caller)])
            /\ UNCHANGED <<queue, pending, locked>>
       ELSE IF noItems(body)
       THEN /\ Respond(r, [kind |-> "ValidationError", code |-> 400,
                           error |-> "No items provided."])
            /\ UNCHANGED <<queue, pending, locked>>
       ELSE IF noGrandTotal(body)
       THEN /\ Respond(r, [kind |-> "ValidationError", code |-> 400,
                           error |-> "Grand total is required."])
            /\ UNCHANGED <<queue, pending, locked>>
       ELSE /\ LET s1 == Schedule(Sched, Stmt(r, "BEGIN"), TRUE)
                   s2 == Schedule(s1, Stmt(r, "INSERT_SALE"), TRUE)
                   s3 == Schedule(s2, Stmt(r, "SELECT_ROWID"), TRUE)
               IN  SetSched(Process(s3))
            /\ UNCHANGED resp
    /\ UNCHANGED <<db, journal, lastRowid, crashed>>

\* processNext: commit when every item is done, else look up the next product
processNext(s, r, items, index) ==
    IF index >= Len(items)
    THEN Schedule(s, Stmt(r, "COMMIT"), FALSE)
    ELSE Schedule(s, [Stmt(r, "SELECT_PRODUCT") EXCEPT
                         !.k = index + 1, !.p = items[index + 1].product_id], FALSE)

\* BEGIN TRANSACTION (no callback)
ExecBegin(st) ==
    /\ st \in pending /\ st.op = "BEGIN"
    /\ IF journal # <<>>
       THEN Crash    \* cannot start a transaction within a transaction
       ELSE /\ journal' = <<db>>
            /\ SetSched(StatementEnd(Sched, st))
            /\ UNCHANGED <<db, lastRowid, req, resp, pre, overlapped, crashed>>

\* 1. insert sale header (no callback)
ExecInsertSale(st) ==
    /\ st \in pending /\ st.op = "INSERT_SALE"
    /\ LET inv == req[st.rid].invoice
       IN  IF \/ \E s \in db.sales : s.invoice_number = inv   \* UNIQUE constraint failed
              \/ paymentMethod(req[st.rid].body) \notin PaymentMethods  \* CHECK constraint failed
              \/ req[st.rid].caller.userId \notin DOMAIN db.users  \* FOREIGN KEY constraint failed
           THEN Crash
           ELSE /\ db' = InsertSale(db, inv, req[st.rid].caller.userId, req[st.rid].body)
                /\ lastRowid' = NextId(db, "sales")
                /\ SetSched(StatementEnd(Sched, st))
                /\ UNCHANGED <<journal, req, resp, pre, overlapped, crashed>>

\* 2. get the new sale id; its callback starts the item loop
ExecSelectRowid(st) ==
    /\ st \in pending /\ st.op = "SELECT_ROWID"
    /\ LET r == st.rid
           s1 == processNext(Sched, r, req[r].items, 0)
       IN  /\ req' = [req EXCEPT ![r].sale_id = lastRowid, ![r].index = 0]
           /\ SetSched(StatementEnd(s1, st))
    /\ UNCHANGED <<db, journal, lastRowid, resp, pre, overlapped, crashed>>

\* 3a. check current stock; the callback issues 3b, 3c and the next step
ExecSelectProduct(st) ==
    /\ st \in pending /\ st.op = "SELECT_PRODUCT"
    /\ LET r == st.rid
           item == req[r].items[st.k]
       IN  IF ~ProductExists(db, item.product_id)
           THEN /\ Respond(r, [product_id |-> item.product_id,
                               kind |-> "ProductNotFound", code |-> 400])
                /\ SetSched(StatementEnd(Schedule(Sched, Stmt(r, "ROLLBACK"), FALSE), st))
                /\ UNCHANGED req
           ELSE LET product == db.products[item.product_id]
                IN  IF insufficientStock(product, item)
                    THEN /\ Respond(r, [product_id |-> item.product_id,
                                        kind |-> "InsufficientStock", code |-> 400,
                                        available |-> product.quantity,
                                        requested |-> item.quantity])
                         /\ SetSched(StatementEnd(
                                Schedule(Sched, Stmt(r, "ROLLBACK"), FALSE), st))
                         /\ UNCHANGED req
                    ELSE LET newQty == product.quantity - item.quantity
                             s1 == Schedule(Sched,
                                     [Stmt(r, "INSERT_ITEM") EXCEPT !.k = st.k,
                                        !.p = item.product_id, !.n = item.quantity],
                                     FALSE)
                             s2 == Schedule(s1,
                                     [Stmt(r, "UPDATE_PRODUCT") EXCEPT !.k = st.k,
                                        !.p = item.product_id, !.n = newQty,
                                        !.s = newStatus(newQty, product.min_stock)],
                                     FALSE)
                             s3 == processNext(s2, r, req[r].items, req[r].index + 1)
                         IN  /\ req' = [req EXCEPT ![r].index = @ + 1]
                             /\ SetSched(StatementEnd(s3, st))
                             /\ UNCHANGED resp
    /\ UNCHANGED <<db, journal, lastRowid, pre, overlapped, crashed>>

\* 3b. insert sale item row (no callback)
ExecInsertItem(st) ==
    /\ st \in pending /\ st.op = "INSERT_ITEM"
    /\ LET sale_id == req[st.rid].sale_id
           item == req[st.rid].items[st.k]
       IN  IF \/ ~SaleExists(db, sale_id) \/ ~ProductExists(db, st.p)  \* FOREIGN KEY constraint failed
              \/ item.price = {}       \* NOT NULL constraint failed: sale_items.price
           THEN Crash
           ELSE /\ db' = InsertItem(db, sale_id, item)
                /\ lastRowid' = NextId(db, "sale_items")
                /\ SetSched(StatementEnd(Sched, st))
                /\ UNCHANGED <<journal, req, resp, pre, overlapped, crashed>>

\* 3c. reduce stock (no callback)
ExecUpdateProduct(st) ==
    /\ st \in pending /\ st.op = "UPDATE_PRODUCT"
    /\ db' = IF ProductExists(db, st.p)
             THEN [db EXCEPT !.products[st.p].quantity = st.n,
                             !.products[st.p].status = st.s]
             ELSE db
    /\ SetSched(StatementEnd(Sched, st))
    /\ UNCHANGED <<journal, lastRowid, req, resp, pre, overlapped, crashed>>

\* the callback of COMMIT (createSale: commitErr is reported; voidSale: the
\* callback takes no argument)
commitCallback(r, commitErr) ==
    IF req[r].kind = "sale"
    THEN IF commitErr
         THEN Respond(r, [kind |-> "TransactionFailed", code |-> 500])
         ELSE Respond(r, [kind |-> "success", code |-> 201,
                          invoiceNumber |-> req[r].invoice,
                          saleId |-> req[r].sale_id,
                          itemsCount |-> Len(req[r].items),
                          grandTotal |-> valueOf(req[r].body.grand_total)])
    ELSE Respond(r, [kind |-> "voided", code |-> 200])

\* COMMIT
ExecCommit(st) ==
    /\ st \in pending /\ st.op = "COMMIT"
    /\ commitCallback(st.rid, journal = <<>>)  \* cannot commit - no transaction is active
    /\ journal' = <<>>
    /\ SetSched(StatementEnd(Sched, st))
    /\ UNCHANGED <<db, lastRowid, req, pre, overlapped, crashed>>

\* ROLLBACK (no callback)
ExecRollback(st) ==
    /\ st \in pending /\ st.op = "ROLLBACK"
    /\ IF journal = <<>>
       THEN Crash    \* cannot rollback - no transaction is active
       ELSE /\ db' = journal[1]
            /\ journal' = <<>>
            /\ SetSched(StatementEnd(Sched, st))
            /\ UNCHANGED <<lastRowid, req, resp, pre, overlapped, crashed>>

(***************************************************************************)
(* voidSale: DELETE /api/sales/:id                                         *)
(***************************************************************************)
SaleIds == 1..NumRequests

\* the rows of a set in rowid order
RECURSIVE InIdOrder(_)
InIdOrder(rows) ==
    IF rows = {} THEN <<>>
    ELSE LET first == CHOOSE x \in rows : \A y \in rows : x.id <= y.id
         IN  <<first>> \o InIdOrder(rows \ {first})

\* the route: verifyToken, isAdmin, then the handler, which reads the sale's
\* items outside any transaction
voidSale(r, caller, id) ==
    /\ ~crashed
    /\ req[r].kind = "none"
    /\ \A o \in Requests : o < r => req[o].kind # "none"
    /\ req' = [req EXCEPT ![r] = [NoReq EXCEPT !.kind = "void", !.caller = caller,
                                               !.sale_id = id]]
    /\ pre' = [pre EXCEPT ![r] = <<Committed>>]
    /\ overlapped' = [overlapped EXCEPT ![r] = Outstanding]
    /\ IF verifyToken(caller) # 0
       THEN /\ Respond(r, [kind |-> "Unauthenticated", code |-> verifyToken(caller)])
            /\ UNCHANGED <<queue, pending, locked>>
       ELSE IF isAdmin(caller) # 0
       THEN /\ Respond(r, [kind |-> "Forbidden", code |-> isAdmin(caller)])
            /\ UNCHANGED <<queue, pending, locked>>
       ELSE /\ SetSched(Schedule(Sched, Stmt(r, "SELECT_ITEMS"), FALSE))
            /\ UNCHANGED resp
    /\ UNCHANGED <<db, journal, lastRowid, crashed>>

\* the restore statements of the forEach, in order
RECURSIVE restoreAll(_, _, _, _)
restoreAll(s, r, items, j) ==
    IF j > Len(items) THEN s
    ELSE restoreAll(Schedule(s, [Stmt(r, "RESTORE") EXCEPT !.k = j,
                                    !.p = items[j].product_id,
                                    !.n = items[j].quantity], TRUE),
                    r, items, j + 1)

\* db.all callback: the db.serialize block of voidSale
ExecSelectItems(st) ==
    /\ st \in pending /\ st.op = "SELECT_ITEMS"
    /\ LET r == st.rid
           items == InIdOrder(ItemsOf(db, req[r].sale_id))
           s1 == Schedule(Sched, Stmt(r, "BEGIN"), TRUE)
           s2 == restoreAll(s1, r, items, 1)
           s3 == Schedule(s2, Stmt(r, "DELETE_ITEMS"), TRUE)
           s4 == Schedule(s3, Stmt(r, "DELETE_SALE"), TRUE)
       IN  SetSched(StatementEnd(Process(s4), st))
    /\ UNCHANGED <<db, journal, lastRowid, req, resp, pre, overlapped, crashed>>

\* restore stock: quantity = quantity + ? (status is not written)
ExecRestore(st) ==
    /\ st \in pending /\ st.op = "RESTORE"
    /\ db' = IF ProductExists(db, st.p)
             THEN [db EXCEPT !.products[st.p].quantity = @ + st.n]
             ELSE db
    /\ SetSched(StatementEnd(Sched, st))
    /\ UNCHANGED <<journal, lastRowid, req, resp, pre, overlapped, crashed>>

ExecDeleteItems(st) ==
    /\ st \in pending /\ st.op = "DELETE_ITEMS"
    /\ db' = [db EXCEPT !.sale_items = @ \ ItemsOf(db, req[st.rid].sale_id)]
    /\ SetSched(StatementEnd(Sched, st))
    /\ UNCHANGED <<journal, lastRowid, req, resp, pre, overlapped, crashed>>

nothingDeletedNever(changes) == changes < 0

\* delErr || this.changes === 0 (the DELETE itself does not fail)
nothingDeleted(changes) == changes = 0

\* DELETE FROM sales and its callback (this.changes)
ExecDeleteSale(st) ==
    /\ st \in pending /\ st.op = "DELETE_SALE"
    /\ LET r == st.rid
           id == req[r].sale_id
           changes == IF SaleExists(db, id) THEN 1 ELSE 0
       IN  /\ db' = [db EXCEPT !.sales = {s \in @ : s.id # id},
                               !.sale_items = @ \ ItemsOf(db, id)]  \* ON DELETE CASCADE
           /\ IF nothingDeleted(changes)
              THEN /\ Respond(r, [kind |-> "SaleNotFound", code |-> 404])
                   /\ SetSched(StatementEnd(
                          Schedule(Sched, Stmt(r, "ROLLBACK"), FALSE), st))
              ELSE /\ UNCHANGED resp
                   /\ SetSched(StatementEnd(
                          Schedule(Sched, Stmt(r, "COMMIT"), FALSE), st))
    /\ UNCHANGED <<journal, lastRowid, req, pre, overlapped, crashed>>

(***************************************************************************)
(* Next-state relation                                                     *)
(***************************************************************************)
Next ==
    \/ \E r \in Requests, items \in Payloads, inv \in Invoices :
          createSale(r, Cashier, SaleBody(items), inv)
    \/ \E r \in Requests, caller \in Callers, id \in SaleIds : voidSale(r, caller, id)
    \/ \E st \in pending : ExecBegin(st)
    \/ \E st \in pending : ExecInsertSale(st)
    \/ \E st \in pending : ExecSelectRowid(st)
    \/ \E st \in pending : ExecSelectProduct(st)
    \/ \E st \in pending : ExecInsertItem(st)
    \/ \E st \in pending : ExecUpdateProduct(st)
    \/ \E st \in pending : ExecCommit(st)
    \/ \E st \in pending : ExecRollback(st)
    \/ \E st \in pending : ExecSelectItems(st)
    \/ \E st \in pending : ExecRestore(st)
    \/ \E st \in pending : ExecDeleteItems(st)
    \/ \E st \in pending : ExecDeleteSale(st)

Spec == Init /\ [][Next]_vars

(***************************************************************************)
(* One checkout with any request body: items absent, not a list or empty,  *)
(* grand_total absent or zero, item quantities zero or negative, items     *)
(* without a price, a payment method the schema refuses, up to             *)
(* MaxBodyItems items.                                                     *)
(***************************************************************************)
MaxBodyItems == 3

AnyQuantity == {0 - 1, 0} \cup (1..MaxQty)

AnyItem == [product_id : Products, quantity : AnyQuantity, price : {{1}}, total : {{}}]
              \cup {[product_id |-> MissingId, quantity |-> 1, price |-> {1}, total |-> {}]}
              \cup {[product_id |-> p, quantity |-> 1, price |-> {}, total |-> {}] :
                        p \in Products}

Bodies ==
    [items : SeqsUpTo(AnyItem, MaxBodyItems), items_type : {"array"},
     grand_total : {{1}}, payment_method : {{}}, customer_name : {{}},
     subtotal : {{}}, tax : {{}}, discount : {{}}]
    \cup [items : {<<>>}, items_type : {"undefined", "object"},
          grand_total : {{}, {0}, {1}}, payment_method : {{}}, customer_name : {{}},
          subtotal : {{}}, tax : {{}}, discount : {{}}]
    \cup [items : SeqsUpTo(Item, 1), items_type : {"array"},
          grand_total : {{}, {0}}, payment_method : {{}}, customer_name : {{}},
          subtotal : {{}}, tax : {{}}, discount : {{}}]
    \cup [items : SeqsUpTo(Item, 1) \ {<<>>}, items_type : {"array"},
          grand_total : {{1}}, payment_method : {{"card"}, {"bitcoin"}},
          customer_name : {{}}, subtotal : {{}}, tax : {{}}, discount : {{}}]

NextBody ==
    \/ \E body \in Bodies : createSale(1, Cashier, body, 1)
    \/ \E st \in pending : ExecBegin(st)
    \/ \E st \in pending : ExecInsertSale(st)
    \/ \E st \in pending : ExecSelectRowid(st)
    \/ \E st \in pending : ExecSelectProduct(st)
    \/ \E st \in pending : ExecInsertItem(st)
    \/ \E st \in pending : ExecUpdateProduct(st)
    \/ \E st \in pending : ExecCommit(st)
    \/ \E st \in pending : ExecRollback(st)

SpecBody == Init /\ [][NextBody]_vars

(***************************************************************************)
(* One checkout of one item by any caller, with the fields of the header   *)
(* and the item's total absent, zero or empty, or given.                   *)
(***************************************************************************)
HeaderItem == [product_id : Products, quantity : 1..MaxQty, price : {{1}, {2}},
               total : {{}, {0}, {3}}]

HeaderBodies ==
    [items : {<<item>> : item \in Item}, items_type : {"array"},
     grand_total : {{1}, {2}}, payment_method : {{}, {"card"}},
     customer_name : {{}, {""}, {"Ann"}}, subtotal : {{}, {0}, {2}},
     tax : {{}, {1}}, discount : {{}, {1}}]
    \cup {SaleBody(<<item>>) : item \in HeaderItem}

NextHeader ==
    \/ \E caller \in Callers, body \in HeaderBodies : createSale(1, caller, body, 1)
    \/ \E st \in pending : ExecBegin(st)
    \/ \E st \in pending : ExecInsertSale(st)
    \/ \E st \in pending : ExecSelectRowid(st)
    \/ \E st \in pending : ExecSelectProduct(st)
    \/ \E st \in pending : ExecInsertItem(st)
    \/ \E st \in pending : ExecUpdateProduct(st)
    \/ \E st \in pending : ExecCommit(st)
    \/ \E st \in pending : ExecRollback(st)

SpecHeader == Init /\ [][NextHeader]_vars

(***************************************************************************)
(* Product management (POST and PUT /api/products) followed by checkouts:  *)
(* the three places that compute a status.  The numeric fields of the form *)
(* are parsed with parseInt(x) || default.                                 *)
(***************************************************************************)
MaxMinStock == 2
DefaultMinStock == 5

RawQuantities == {{}} \cup {{n} : n \in 0..MaxStock}
RawMinStocks == {{}} \cup {{n} : n \in 0..MaxMinStock}

\* parseInt(v) || dflt: an absent field is NaN, and NaN and 0 give the default
parseIntOr(v, dflt) ==
    IF v = {} THEN dflt
    ELSE LET n == CHOOSE x \in v : TRUE
         IN  IF n = 0 THEN dflt ELSE n

\* the row POST /api/products inserts
createProduct(quantity, min_stock) ==
    LET qty == parseIntOr(quantity, 0)
        minStock == parseIntOr(min_stock, DefaultMinStock)
    IN  [quantity |-> qty, min_stock |-> minStock, status |-> createStatus(qty, minStock)]

InitProducts ==
    /\ \E quantity \in [Products -> RawQuantities], min_stock \in [Products -> RawMinStocks] :
          db = [seq |-> [sales |-> 0, sale_items |-> 0, users |-> 2],
                sales |-> {},
                sale_items |-> {},
                products |-> [p \in Products |->
                                 createProduct(quantity[p], min_stock[p])],
                users |-> InitialUsers]
    /\ journal = <<>>
    /\ lastRowid = 0
    /\ queue = <<>>
    /\ pending = {}
    /\ locked = FALSE
    /\ req = [r \in Requests |-> NoReq]
    /\ resp = [r \in Requests |-> <<>>]
    /\ pre = [r \in Requests |-> <<>>]
    /\ overlapped = [r \in Requests |-> FALSE]
    /\ crashed = FALSE

\* PUT /api/products/:id by an admin, made while no checkout is in progress:
\* one UPDATE and its callback
updateProduct(r, id, quantity, min_stock) ==
    /\ ~crashed /\ ~Outstanding
    /\ req[r].kind = "none"
    /\ \A o \in Requests : o < r => req[o].kind # "none"
    /\ LET qty == parseIntOr(quantity, 0)
           minStock == parseIntOr(min_stock, DefaultMinStock)
           status == updateStatus(qty, minStock)
           changes == IF id \in Products THEN 1 ELSE 0
       IN  /\ db' = IF id \in Products
                    THEN [db EXCEPT !.products[id] =
                             [quantity |-> qty, min_stock |-> minStock, status |-> status]]
                    ELSE db
           /\ IF changes = 0
              THEN Respond(r, [kind |-> "ProductNotFound", code |-> 404])
              ELSE Respond(r, [kind |-> "updated", code |-> 200])
    /\ req' = [req EXCEPT ![r] = [NoReq EXCEPT !.kind = "update",
                                               !.body = [quantity |-> quantity,
                                                         min_stock |-> min_stock,
                                                         id |-> id],
                                               !.caller = Admin]]
    /\ pre' = [pre EXCEPT ![r] = <<Committed>>]
    /\ UNCHANGED <<journal, lastRowid, queue, pending, locked, overlapped, crashed>>

NextProducts ==
    \/ \E r \in Requests, id \in Products \cup {MissingId},
          quantity \in RawQuantities, min_stock \in RawMinStocks :
          updateProduct(r, id, quantity, min_stock)
    \/ \E r \in Requests, item \in Item : createSale(r, Cashier, SaleBody(<<item>>), r)
    \/ \E st \in pending : ExecBegin(st)
    \/ \E st \in pending : ExecInsertSale(st)
    \/ \E st \in pending : ExecSelectRowid(st)
    \/ \E st \in pending : ExecSelectProduct(st)
    \/ \E st \in pending : ExecInsertItem(st)
    \/ \E st \in pending : ExecUpdateProduct(st)
    \/ \E st \in pending : ExecCommit(st)
    \/ \E st \in pending : ExecRollback(st)

SpecProducts == InitProducts /\ [][NextProducts]_vars

(***************************************************************************)
(* Product management alone, the form carrying any number: quantity and    *)
(* min_stock absent, negative, zero or positive.                           *)
(***************************************************************************)
AnyRawQuantities == RawQuantities \cup {{0 - 1}}
AnyRawMinStocks == RawMinStocks \cup {{0 - 1}}

InitCatalog ==
    /\ \E quantity \in [Products -> AnyRawQuantities],
          min_stock \in [Products -> AnyRawMinStocks] :
          db = [seq |-> [sales |-> 0, sale_items |-> 0, users |-> 2],
                sales |-> {},
                sale_items |-> {},
                products |-> [p \in Products |->
                                 createProduct(quantity[p], min_stock[p])],
                users |-> InitialUsers]
    /\ journal = <<>>
    /\ lastRowid = 0
    /\ queue = <<>>
    /\ pending = {}
    /\ locked = FALSE
    /\ req = [r \in Requests |-> NoReq]
    /\ resp = [r \in Requests |-> <<>>]
    /\ pre = [r \in Requests |-> <<>>]
    /\ overlapped = [r \in Requests |-> FALSE]
    /\ crashed = FALSE

NextCatalog ==
    \E r \in Requests, id \in Products \cup {MissingId},
       quantity \in AnyRawQuantities, min_stock \in AnyRawMinStocks :
       updateProduct(r, id, quantity, min_stock)

SpecCatalog == InitCatalog /\ [][NextCatalog]_vars

(***************************************************************************)
(* Voids of a sale that is in the store.  The initial store is the one a   *)
(* lone checkout that responded success leaves when its statements ran in  *)
(* the order they were issued.                                             *)
(***************************************************************************)
RECURSIVE InsertItems(_, _, _)
InsertItems(d, sale_id, items) ==
    IF items = <<>> THEN d
    ELSE InsertItems(InsertItem(d, sale_id, Head(items)), sale_id, Tail(items))

\* the store after the sale of items, q[p] being what is left of product p
StoreAfterSale(q, m, items) ==
    LET empty == [seq |-> [sales |-> 0, sale_items |-> 0, users |-> 2],
                  sales |-> {},
                  sale_items |-> {},
                  products |-> [p \in Products |->
                                   [quantity |-> q[p], min_stock |-> m[p],
                                    status |-> newStatus(q[p], m[p])]],
                  users |-> InitialUsers]
    IN  InsertItems(InsertSale(empty, 1, Cashier.userId, SaleBody(items)), 1, items)

InitSold ==
    /\ \E q \in [Products -> 0..MaxStock], m \in [Products -> MinStocks],
          items \in {i \in Payloads : \A k \in DOMAIN i : i[k].product_id \in Products} :
          /\ db = StoreAfterSale(q, m, items)
          /\ lastRowid = Len(items)
    /\ journal = <<>>
    /\ queue = <<>>
    /\ pending = {}
    /\ locked = FALSE
    /\ req = [r \in Requests |-> NoReq]
    /\ resp = [r \in Requests |-> <<>>]
    /\ pre = [r \in Requests |-> <<>>]
    /\ overlapped = [r \in Requests |-> FALSE]
    /\ crashed = FALSE

NextVoids ==
    \/ \E r \in Requests, id \in SaleIds : voidSale(r, Admin, id)
    \/ \E st \in pending : ExecSelectItems(st)
    \/ \E st \in pending : ExecBegin(st)
    \/ \E st \in pending : ExecRestore(st)
    \/ \E st \in pending : ExecDeleteItems(st)
    \/ \E st \in pending : ExecDeleteSale(st)
    \/ \E st \in pending : ExecCommit(st)
    \/ \E st \in pending : ExecRollback(st)

SpecVoids == InitSold /\ [][NextVoids]_vars

(***************************************************************************)
(* User management (PUT and DELETE /api/users/:id, PUT                     *)
(* /api/users/:id/status) and product deletion (DELETE /api/products/:id). *)
(* The :id of the route is a text, here the sequence of its characters:    *)
(* the guards of the handlers read it with parseInt, the store converts it *)
(* to a number to compare it with the integer key.  Each handler issues    *)
(* one statement; the handler, the statement and its callback are one      *)
(* step, taken at any moment between two statements of the other requests. *)
(***************************************************************************)
DigitChars == {"0", "1", "2", "3", "4", "5", "6", "7", "8", "9"}

digit(c) == CHOOSE n \in 0..9 : ToString(n) = c

\* the number of digits of s from position i on
RECURSIVE digitsLen(_, _)
digitsLen(s, i) ==
    IF i <= Len(s) /\ s[i] \in DigitChars THEN 1 + digitsLen(s, i + 1) ELSE 0

\* the value of the n digits of s from position i on, after the digits in acc
RECURSIVE digitsValue(_, _, _, _)
digitsValue(s, i, n, acc) ==
    IF n = 0 THEN acc ELSE digitsValue(s, i + 1, n - 1, 10 * acc + digit(s[i]))

RECURSIVE pow10(_)
pow10(n) == IF n = 0 THEN 1 ELSE 10 * pow10(n - 1)

signLen(s, i) == IF i <= Len(s) /\ s[i] \in {"-", "+"} THEN 1 ELSE 0

signOf(s, i) == IF i <= Len(s) /\ s[i] = "-" THEN 0 - 1 ELSE 1

\* parseInt(req.params.id): an optional sign and the longest run of digits
\* after it, whatever follows; NaN ({}) when there is no digit
parseInt(s) ==
    LET at == 1 + signLen(s, 1)
        n == digitsLen(s, at)
    IN  IF n = 0 THEN {} ELSE {signOf(s, 1) * digitsValue(s, at, n, 0)}

\* WHERE id = ? with a text bound to ?: the text is converted as a number
\* when all of it is a well-formed integer or real literal (sign, digits,
\* fraction, exponent) and compared with the key; the integer it is equal
\* to, {} when it is equal to none
keyOf(s) ==
    LET a == 1 + signLen(s, 1)
        il == digitsLen(s, a)
        dot == a + il
        hasDot == dot <= Len(s) /\ s[dot] = "."
        fl == IF hasDot THEN digitsLen(s, dot + 1) ELSE 0
        e == IF hasDot THEN dot + 1 + fl ELSE dot
        hasExp == e <= Len(s) /\ s[e] \in {"e", "E"}
        ea == e + 1 + signLen(s, e + 1)
        el == IF hasExp THEN digitsLen(s, ea) ELSE 0
        stop == IF hasExp THEN ea + el ELSE e
        wellFormed == il + fl >= 1 /\ (hasExp => el >= 1) /\ stop = Len(s) + 1
        mant == digitsValue(s, dot + 1, fl, digitsValue(s, a, il, 0))
        exp == (IF hasExp THEN signOf(s, e + 1) * digitsValue(s, ea, el, 0) ELSE 0) - fl
    IN  IF ~wellFormed THEN {}
        ELSE IF exp >= 0 THEN {signOf(s, 1) * mant * pow10(exp)}
        ELSE IF mant % pow10(0 - exp) = 0
             THEN {signOf(s, 1) * (mant \div pow10(0 - exp))}
        ELSE {}

\* the rows of users that WHERE id = ? selects
usersWhereId(d, id) == {u \in DOMAIN d.users : keyOf(id) = {u}}

IdParams == {<<"1">>, <<"2">>, <<"3">>, <<"1", ".", "0">>,
             <<"1", "0", "e", "-", "1">>, <<"x">>}

\* req.body of PUT /api/users/:id with every field given
UserForms == [role : {"user", "root"}, username : {"bob", "admin"},
              email : {"bob@company.com", "bob"}, branch : {"Main"},
              status : {"inactive"}]

emailRegexTest(email) ==
    email \in {"bob@company.com", "admin@company.com", "carol@company.com",
               "nobody@company.com"}

\* a request that is one step: what it is, its response, the store after it
Served(r, kind, caller, body, answer, store) ==
    /\ ~crashed
    /\ req[r].kind = "none"
    /\ \A o \in Requests : o < r => req[o].kind # "none"
    /\ req' = [req EXCEPT ![r] = [NoReq EXCEPT !.kind = kind, !.caller = caller,
                                               !.body = body]]
    /\ pre' = [pre EXCEPT ![r] = <<Committed>>]
    /\ overlapped' = [overlapped EXCEPT ![r] = Outstanding]
    /\ Respond(r, answer)
    /\ db' = store
    /\ UNCHANGED <<journal, lastRowid, queue, pending, locked, crashed>>

\* verifyToken, isAdmin: the refusal of the middleware, <<>> when it has none
Middleware(caller) ==
    IF verifyToken(caller) # 0
    THEN <<[kind |-> "Unauthenticated", code |-> verifyToken(caller)]>>
    ELSE IF isAdmin(caller) # 0
    THEN <<[kind |-> "Forbidden", code |-> isAdmin(caller)]>>
    ELSE <<>>

\* parseInt(req.params.id) === 1
defaultAdmin(id) == parseInt(id) = {1}

\* PUT /api/users/:id
updateUser(r, caller, id, form) ==
    LET rows == usersWhereId(db, id)
        clash == \E u \in rows, o \in DOMAIN db.users :
                    /\ o # u
                    /\ \/ db.users[o].username = form.username
                       \/ db.users[o].email = form.email
        answer ==
            IF Middleware(caller) # <<>> THEN Middleware(caller)[1]
            ELSE IF ~emailRegexTest(form.email) THEN [kind |-> "InvalidEmail", code |-> 400]
            ELSE IF form.role \notin {"admin", "user"}
            THEN [kind |-> "InvalidRole", code |-> 400]
            ELSE IF form.status \notin {"active", "inactive"}
            THEN [kind |-> "InvalidStatus", code |-> 400]
            ELSE IF defaultAdmin(id) THEN [kind |-> "DefaultAdmin", code |-> 403]
            ELSE IF clash THEN [kind |-> "AlreadyExists", code |-> 400]
            ELSE IF rows = {} THEN [kind |-> "UserNotFound", code |-> 404]
            ELSE [kind |-> "updated", code |-> 200]
        store ==
            IF answer.kind = "updated"
            THEN [db EXCEPT !.users = [u \in DOMAIN @ |->
                                          IF u \in rows
                                          THEN [role |-> form.role,
                                                password |-> @[u].password,
                                                username |-> form.username,
                                                email |-> form.email,
                                                branch |-> form.branch,
                                                status |-> form.status]
                                          ELSE @[u]]]
            ELSE db
    IN  Served(r, "user_update", caller, [id |-> id, form |-> form], answer, store)

onDeleteCascade(sales, users) == {s \in sales : s.user_id \subseteq users}

\* FOREIGN KEY (user_id) REFERENCES users(id) ON DELETE SET NULL: the sales
\* rows once the users in the set are deleted
onDeleteSetNull(sales, users) ==
    {IF s.user_id \subseteq users THEN s ELSE [s EXCEPT !.user_id = {}] : s \in sales}

\* DELETE /api/users/:id
deleteUser(r, caller, id) ==
    LET rows == usersWhereId(db, id)
        left == DOMAIN db.users \ rows
        answer ==
            IF Middleware(caller) # <<>> THEN Middleware(caller)[1]
            ELSE IF defaultAdmin(id) THEN [kind |-> "DefaultAdmin", code |-> 403]
            ELSE IF parseInt(id) = {caller.userId}
            THEN [kind |-> "OwnAccount", code |-> 403]
            ELSE IF rows = {} THEN [kind |-> "UserNotFound", code |-> 404]
            ELSE [kind |-> "deleted", code |-> 200]
        store ==
            IF answer.kind = "deleted"
            THEN [db EXCEPT !.users = [u \in left |-> @[u]],
                            !.sales = onDeleteSetNull(@, left)]
            ELSE db
    IN  Served(r, "user_delete", caller, [id |-> id], answer, store)

\* PUT /api/users/:id/status
statusUser(r, caller, id, status) ==
    LET rows == usersWhereId(db, id)
        answer ==
            IF Middleware(caller) # <<>> THEN Middleware(caller)[1]
            ELSE IF status \notin {"active", "inactive"}
            THEN [kind |-> "InvalidStatus", code |-> 400]
            ELSE IF defaultAdmin(id) THEN [kind |-> "DefaultAdmin", code |-> 403]
            ELSE IF parseInt(id) = {caller.userId} /\ status = "inactive"
            THEN [kind |-> "OwnAccount", code |-> 403]
            ELSE IF rows = {} THEN [kind |-> "UserNotFound", code |-> 404]
            ELSE [kind |-> "updated", code |-> 200]
        store ==
            IF answer.kind = "updated"
            THEN [db EXCEPT !.users = [u \in DOMAIN @ |->
                                          IF u \in rows THEN [@[u] EXCEPT !.status = status]
                                          ELSE @[u]]]
            ELSE db
    IN  Served(r, "user_status", caller, [id |-> id, status |-> status], answer, store)

referencedNever(d, id) == FALSE

\* FOREIGN KEY (product_id) REFERENCES products(id) ON DELETE RESTRICT
referenced(d, id) == \E i \in d.sale_items : i.product_id = id

\* DELETE /api/products/:id (the image path is read first)
deleteProduct(r, caller, id) ==
    LET answer ==
            IF Middleware(caller) # <<>> THEN Middleware(caller)[1]
            ELSE IF referenced(db, id) THEN [kind |-> "DeleteFailed", code |-> 500]
            ELSE IF ~ProductExists(db, id) THEN [kind |-> "ProductNotFound", code |-> 404]
            ELSE [kind |-> "deleted", code |-> 200]
        store ==
            IF answer.kind = "deleted"
            THEN [db EXCEPT !.products = [p \in DOMAIN @ \ {id} |-> @[p]]]
            ELSE db
    IN  Served(r, "product_delete", caller, [id |-> id], answer, store)

NextUsers ==
    \/ \E r \in Requests, id \in IdParams, form \in UserForms :
          updateUser(r, Admin, id, form)
    \/ \E r \in Requests, caller \in {Admin, Cashier}, id \in IdParams :
          deleteUser(r, caller, id)
    \/ \E r \in Requests, id \in IdParams, status \in {"inactive", "gone"} :
          statusUser(r, Admin, id, status)

SpecUsers == Init /\ [][NextUsers]_vars

(***************************************************************************)
(* Checkouts and voids together with the administration of the account     *)
(* that sells and of the products.                                         *)
(***************************************************************************)
SellerForm == [role |-> "user", username |-> "bob", email |-> "bob@company.com",
               branch |-> "Main", status |-> "inactive"]

NextAdmin ==
    \/ \E r \in Requests, item \in Item : createSale(r, Cashier, SaleBody(<<item>>), r)
    \/ \E r \in Requests, id \in SaleIds : voidSale(r, Admin, id)
    \/ \E r \in Requests : updateUser(r, Admin, <<"2">>, SellerForm)
    \/ \E r \in Requests, id \in {<<"2">>, <<"3">>} : deleteUser(r, Admin, id)
    \/ \E r \in Requests : statusUser(r, Admin, <<"2">>, "inactive")
    \/ \E r \in Requests, id \in Products \cup {MissingId} : deleteProduct(r, Admin, id)
    \/ \E r \in Requests, id \in Products, quantity \in RawQuantities :
          updateProduct(r, id, quantity, {})
    \/ \E st \in pending : ExecBegin(st)
    \/ \E st \in pending : ExecInsertSale(st)
    \/ \E st \in pending : ExecSelectRowid(st)
    \/ \E st \in pending : ExecSelectProduct(st)
    \/ \E st \in pending : ExecInsertItem(st)
    \/ \E st \in pending : ExecUpdateProduct(st)
    \/ \E st \in pending : ExecCommit(st)
    \/ \E st \in pending : ExecRollback(st)
    \/ \E st \in pending : ExecSelectItems(st)
    \/ \E st \in pending : ExecRestore(st)
    \/ \E st \in pending : ExecDeleteItems(st)
    \/ \E st \in pending : ExecDeleteSale(st)

SpecAdmin == Init /\ [][NextAdmin]_vars

(***************************************************************************)
(* Accounts: registration, login and user management, each request one     *)
(* statement.  A token is what login signed at some earlier time: the id   *)
(* and the role the account had then.                                      *)
(***************************************************************************)
Admin2 == [userId |-> 2, token |-> "valid", role |-> "admin"]

\* jwt.sign({ id, role, email }): the token login issues for a users row
sign(id, user) == [userId |-> id, token |-> "valid", role |-> user.role]

\* the users tables PUT /api/users/2 by the default admin leads to
UserTables ==
    {[InitialUsers EXCEPT ![2].role = role, ![2].status = status] :
        role \in {"user", "admin"}, status \in {"active", "inactive"}}

InitAccounts ==
    /\ \E users \in UserTables :
          db = [seq |-> [sales |-> 0, sale_items |-> 0, users |-> 2],
                sales |-> {},
                sale_items |-> {},
                products |-> [p \in Products |->
                                 [quantity |-> 1, min_stock |-> 1,
                                  status |-> createStatus(1, 1)]],
                users |-> users]
    /\ journal = <<>>
    /\ lastRowid = 0
    /\ queue = <<>>
    /\ pending = {}
    /\ locked = FALSE
    /\ req = [r \in Requests |-> NoReq]
    /\ resp = [r \in Requests |-> <<>>]
    /\ pre = [r \in Requests |-> <<>>]
    /\ overlapped = [r \in Requests |-> FALSE]
    /\ crashed = FALSE

\* req.body of POST /api/auth/register and of POST /api/users
AccountForms == [role : {{}, {"admin"}, {"root"}},
                 password : {"carol123", "short"},
                 username : {"carol", "bob", ""},
                 email : {"carol@company.com", "carol"},
                 branch : {{}}]

\* the validation the two routes share: required fields, email, password
invalidAccount(form) ==
    IF form.username = "" \/ form.email = "" \/ form.password = ""
    THEN <<[kind |-> "MissingFields", code |-> 400]>>
    ELSE IF ~emailRegexTest(form.email)
    THEN <<[kind |-> "InvalidEmail", code |-> 400]>>
    ELSE IF Len(form.password) < 6
    THEN <<[kind |-> "ShortPassword", code |-> 400]>>
    ELSE <<>>

\* role || 'user', branch || 'Main'
roleOf(form) == IF falsyText(form.role) THEN "user" ELSE valueOf(form.role)

branchOf(form) == IF falsyText(form.branch) THEN "Main" ELSE valueOf(form.branch)

\* INSERT INTO users: the error of the statement, "" when it has none
insertUserError(d, form) ==
    IF roleOf(form) \notin {"admin", "user"} THEN "CHECK constraint failed"
    ELSE IF \E o \in DOMAIN d.users : \/ d.users[o].username = form.username
                                       \/ d.users[o].email = form.email
    THEN "UNIQUE constraint failed"
    ELSE ""

\* INSERT INTO users: the store with the row, status 'active'
InsertUser(d, form) ==
    LET id == NextId(d, "users")
        row == [role |-> roleOf(form), password |-> hashSync(form.password),
                username |-> form.username, email |-> form.email,
                branch |-> branchOf(form), status |-> "active"]
    IN  [d EXCEPT !.users = [u \in DOMAIN @ \cup {id} |->
                                IF u = id THEN row ELSE @[u]],
                  !.seq["users"] = id]

\* the callback of the INSERT
inserted(d, form, failure) ==
    IF insertUserError(d, form) = "UNIQUE constraint failed"
    THEN [kind |-> "AlreadyExists", code |-> 400]
    ELSE IF insertUserError(d, form) # ""
    THEN [kind |-> failure, code |-> 500]
    ELSE [userId |-> NextId(d, "users"), kind |-> "created", code |-> 201]

\* POST /api/auth/register
register(r, form) ==
    LET answer ==
            IF invalidAccount(form) # <<>> THEN invalidAccount(form)[1]
            ELSE inserted(db, form, "RegisterFailed")
        store == IF answer.kind = "created" THEN InsertUser(db, form) ELSE db
    IN  Served(r, "register", NoCaller, [form |-> form], answer, store)

\* POST /api/users
createUser(r, caller, form) ==
    LET answer ==
            IF Middleware(caller) # <<>> THEN Middleware(caller)[1]
            ELSE IF invalidAccount(form) # <<>> THEN invalidAccount(form)[1]
            ELSE IF ~falsyText(form.role) /\ valueOf(form.role) \notin {"admin", "user"}
            THEN [kind |-> "InvalidRole", code |-> 400]
            ELSE inserted(db, form, "CreateFailed")
        store == IF answer.kind = "created" THEN InsertUser(db, form) ELSE db
    IN  Served(r, "user_create", caller, [form |-> form], answer, store)

\* SELECT * FROM users WHERE email = ?
usersWhereEmail(d, email) == {u \in DOMAIN d.users : d.users[u].email = email}

\* POST /api/auth/login
login(r, email, password) ==
    LET rows == usersWhereEmail(db, email)
        answer ==
            IF email = "" \/ password = ""
            THEN [kind |-> "MissingFields", code |-> 400]
            ELSE IF rows = {} THEN [kind |-> "InvalidCredentials", code |-> 401]
            ELSE LET id == CHOOSE u \in rows : TRUE
                     user == db.users[id]
                 IN  IF user.status # "active"
                     THEN [kind |-> "Deactivated", code |-> 403]
                     ELSE IF ~compareSync(password, user.password)
                     THEN [kind |-> "InvalidCredentials", code |-> 401]
                     ELSE [token |-> sign(id, user), kind |-> "success", code |-> 200]
    IN  Served(r, "login", NoCaller, [password |-> password, email |-> email],
               answer, db)

LoginEmails == {"bob@company.com", "admin@company.com", "nobody@company.com", ""}

LoginPasswords == {"bob12345", "admin123", ""}

PlainIdParams == {<<"1">>, <<"2">>, <<"3">>}

NextAccounts ==
    \/ \E r \in Requests, form \in AccountForms : register(r, form)
    \/ \E r \in Requests, caller \in {Admin, Cashier}, form \in AccountForms :
          createUser(r, caller, form)
    \/ \E r \in Requests, email \in LoginEmails, password \in LoginPasswords :
          login(r, email, password)
    \/ \E r \in Requests, caller \in {Admin, Admin2}, id \in PlainIdParams,
          form \in UserForms : updateUser(r, caller, id, form)
    \/ \E r \in Requests, caller \in {Admin, Admin2, Cashier}, id \in PlainIdParams :
          deleteUser(r, caller, id)
    \/ \E r \in Requests, caller \in {Admin, Admin2}, id \in PlainIdParams,
          status \in {"active", "inactive"} : statusUser(r, caller, id, status)

SpecAccounts == InitAccounts /\ [][NextAccounts]_vars

(***************************************************************************)
(* Reading the sales: the listing, the single sale and the reports, over   *)
(* stores that hold the sales of several users.  Each request is its       *)
(* SELECTs, nothing else running.  Every sale of a store was made within   *)
(* the same hour, the one in which the requests arrive.                    *)
(***************************************************************************)
MaxLedger == 2

\* the sales that were made: who sold, how it was paid, how many units
Entries == [quantity : 1..MaxQty, payment_method : {{}, {"card"}}, seller : {1, 2}]

Ledgers == UNION {[1..n -> Entries] : n \in 0..MaxLedger}

entryBody(e) ==
    [SaleBody(<<[product_id |-> 1, quantity |-> e.quantity, price |-> {1},
                 total |-> {}]>>)
        EXCEPT !.payment_method = e.payment_method, !.grand_total = {e.quantity}]

\* the store after the checkouts of the entries, one after the other
RECURSIVE StoreAfterSales(_, _)
StoreAfterSales(d, entries) ==
    IF entries = <<>> THEN d
    ELSE LET id == NextId(d, "sales")
             body == entryBody(Head(entries))
             sold == InsertItems(InsertSale(d, id, Head(entries).seller, body),
                                 id, body.items)
         IN  StoreAfterSales(sold, Tail(entries))

InitLedger ==
    /\ \E entries \in Ledgers :
          /\ db = StoreAfterSales(
                    [seq |-> [sales |-> 0, sale_items |-> 0, users |-> 2],
                     sales |-> {},
                     sale_items |-> {},
                     products |-> [p \in Products |->
                                      [quantity |-> 1, min_stock |-> 1,
                                       status |-> newStatus(1, 1)]],
                     users |-> InitialUsers],
                    entries)
          /\ lastRowid = Len(entries)
    /\ journal = <<>>
    /\ queue = <<>>
    /\ pending = {}
    /\ locked = FALSE
    /\ req = [r \in Requests |-> NoReq]
    /\ resp = [r \in Requests |-> <<>>]
    /\ pre = [r \in Requests |-> <<>>]
    /\ overlapped = [r \in Requests |-> FALSE]
    /\ crashed = FALSE

\* created_at DATETIME DEFAULT CURRENT_TIMESTAMP
createdAt(s) == [day |-> "today", month |-> "this month", hour |-> "this hour"]

\* if (req.userRole !== 'admin') ... AND user_id = req.userId
visibleTo(d, caller) ==
    IF caller.role # "admin"
    THEN {s \in d.sales : s.user_id = {caller.userId}}
    ELSE d.sales

\* LEFT JOIN users u ON s.user_id = u.id: u.username as cashier_name
withCashier(d, s) ==
    [sale |-> s,
     cashier_name |-> {d.users[u].username : u \in s.user_id \cap DOMAIN d.users}]

\* SUM(column) over rows
RECURSIVE sumColumn(_, _)
sumColumn(rows, column) ==
    IF rows = {} THEN 0
    ELSE LET x == CHOOSE y \in rows : TRUE
         IN  x[column] + sumColumn(rows \ {x}, column)

\* GET /api/sales, the rows in no order
listAnswer(d, caller, payment_method) ==
    LET rows == {s \in visibleTo(d, caller) :
                    falsyText(payment_method)
                        \/ s.payment_method = valueOf(payment_method)}
    IN  [sales |-> {withCashier(d, s) : s \in rows}, kind |-> "list", code |-> 200,
         count |-> Cardinality(rows)]

\* GET /api/sales/:id
saleAnswer(d, caller, id) ==
    LET rows == {s \in d.sales : s.id = id}
    IN  IF rows = {} THEN [kind |-> "SaleNotFound", code |-> 404]
        ELSE LET sale == CHOOSE s \in rows : TRUE
             IN  IF caller.role # "admin" /\ sale.user_id # {caller.userId}
                 THEN [kind |-> "PermissionDenied", code |-> 403]
                 ELSE [items |-> ItemsOf(d, id), kind |-> "sale", sale |-> withCashier(d, sale),
                       code |-> 200]

\* GET /api/sales/reports/summary: the totals, the payment methods, the
\* products sold (AVG is the pair of the sum and the count)
summaryAnswer(d, caller) ==
    LET rows == visibleTo(d, caller)
        n == Cardinality(rows)
        totals == {s.grand_total : s \in rows}
        sold == {i \in d.sale_items :
                    /\ \E s \in rows : s.id = i.sale_id
                    /\ ProductExists(d, i.product_id)}
        paid(m) == {s \in rows : s.payment_method = m}
        of(p) == {i \in sold : i.product_id = p}
    IN  [kind |-> "summary", code |-> 200,
         summary |->
            [total_sales |-> n,
             total_revenue |-> sumColumn(rows, "grand_total"),
             average_sale |-> IF n = 0 THEN <<0, 1>>
                              ELSE <<sumColumn(rows, "grand_total"), n>>,
             total_subtotal |-> sumColumn(rows, "subtotal"),
             total_tax |-> sumColumn(rows, "tax"),
             total_discount |-> sumColumn(rows, "discount"),
             min_sale |-> {x \in totals : \A y \in totals : x <= y},
             max_sale |-> {x \in totals : \A y \in totals : x >= y},
             payment_methods |->
                {[total |-> sumColumn(paid(m), "grand_total"), payment_method |-> m,
                  count |-> Cardinality(paid(m))] :
                    m \in {s.payment_method : s \in rows}},
             top_products |->
                {[id |-> p, units_sold |-> sumColumn(of(p), "quantity"),
                  revenue |-> sumColumn(of(p), "total")] :
                    p \in {i.product_id : i \in sold}}]]

\* GET /api/sales/reports/daily: date is req.query.date or today
dailyAnswer(d, caller, date) ==
    LET targetDate == IF falsyText(date) THEN "today" ELSE valueOf(date)
        rows == {s \in visibleTo(d, caller) : createdAt(s).day = targetDate}
        at(h) == {s \in rows : createdAt(s).hour = h}
    IN  [kind |-> "daily", code |-> 200, date |-> targetDate,
         data |-> {[hour |-> h, total_revenue |-> sumColumn(at(h), "grand_total"),
                    sales_count |-> Cardinality(at(h))] :
                      h \in {createdAt(s).hour : s \in rows}}]

\* GET /api/sales/reports/monthly: month is req.query.month or this month
monthlyAnswer(d, caller, month) ==
    LET target == IF falsyText(month) THEN "this month" ELSE valueOf(month)
        rows == {s \in visibleTo(d, caller) : createdAt(s).month = target}
        on(day) == {s \in rows : createdAt(s).day = day}
    IN  [kind |-> "monthly", code |-> 200, month |-> target,
         data |-> {[total_revenue |-> sumColumn(on(day), "grand_total"), date |-> day,
                    sales_count |-> Cardinality(on(day))] :
                      day \in {createdAt(s).day : s \in rows}}]

\* what a reading request is answered from a store
readAnswer(d, kind, caller, body) ==
    IF verifyToken(caller) # 0
    THEN [kind |-> "Unauthenticated", code |-> verifyToken(caller)]
    ELSE IF kind = "sale_list" THEN listAnswer(d, caller, body.payment_method)
    ELSE IF kind = "sale_get" THEN saleAnswer(d, caller, body.id)
    ELSE IF kind = "report_summary" THEN summaryAnswer(d, caller)
    ELSE IF kind = "report_daily" THEN dailyAnswer(d, caller, body.date)
    ELSE monthlyAnswer(d, caller, body.month)

readSales(r, kind, caller, body) ==
    Served(r, kind, caller, body, readAnswer(db, kind, caller, body), db)

Readers == {NoCaller, Cashier, Admin}

NextLedger ==
    \/ \E r \in Requests, caller \in Readers, payment_method \in {{}, {"card"}} :
          readSales(r, "sale_list", caller, [payment_method |-> payment_method])
    \/ \E r \in Requests, caller \in Readers, id \in 1..(MaxLedger + 1) :
          readSales(r, "sale_get", caller, [id |-> id])
    \/ \E r \in Requests, caller \in Readers :
          readSales(r, "report_summary", caller, [period |-> {}])
    \/ \E r \in Requests, caller \in Readers, date \in {{}, {"yesterday"}} :
          readSales(r, "report_daily", caller, [date |-> date])
    \/ \E r \in Requests, caller \in Readers, month \in {{}, {"last month"}} :
          readSales(r, "report_monthly", caller, [month |-> month])

SpecLedger == InitLedger /\ [][NextLedger]_vars

(***************************************************************************)
(* The store may fail to commit.  SQLite ends the COMMIT with an error and *)
(* either has rolled the transaction back (disk full, I/O error) or has    *)
(* left it open (database busy).                                           *)
(***************************************************************************)
ExecCommitFails(st, stillOpen) ==
    /\ st \in pending /\ st.op = "COMMIT"
    /\ journal # <<>>
    /\ commitCallback(st.rid, TRUE)
    /\ db' = IF stillOpen THEN db ELSE journal[1]
    /\ journal' = IF stillOpen THEN journal ELSE <<>>
    /\ SetSched(StatementEnd(Sched, st))
    /\ UNCHANGED <<lastRowid, req, pre, overlapped, crashed>>

NextFault ==
    \/ Next
    \/ \E st \in pending, stillOpen \in BOOLEAN : ExecCommitFails(st, stillOpen)

SpecFault == Init /\ [][NextFault]_vars


(***************************************************************************)
(* Vocabulary of the properties                                            *)
(***************************************************************************)
\* the three tables a caller can observe
Tables(d) == [sales |-> d.sales, sale_items |-> d.sale_items, products |-> d.products]

\* every statement issued so far has run and the process is alive
Quiescent == ~crashed /\ pending = {} /\ queue = <<>>

Started(r) == req[r].kind # "none"

Latest(r) == Started(r) /\ \A o \in Requests : o > r => ~Started(o)

Outcome(r) == IF resp[r] = <<>> THEN "none" ELSE resp[r][1].kind

Succeeded(r) == req[r].kind = "sale" /\ Outcome(r) = "success"

FailedOnItem(r) ==
    req[r].kind = "sale" /\ Outcome(r) \in {"ProductNotFound", "InsufficientStock"}

\* the quantity a list of line items asks of product p
RECURSIVE SumQty(_, _)
SumQty(items, p) ==
    IF items = <<>> THEN 0
    ELSE (IF Head(items).product_id = p THEN Head(items).quantity ELSE 0)
         + SumQty(Tail(items), p)

\* the quantity of product p in the requests that responded success
RECURSIVE SoldUpTo(_, _)
SoldUpTo(r, p) ==
    IF r = 0 THEN 0
    ELSE (IF Succeeded(r) THEN SumQty(req[r].items, p) ELSE 0) + SoldUpTo(r - 1, p)

\* the reference rule of the data model: status as a function of quantity
deriveStatus(quantity, min_stock) ==
    IF quantity = 0 THEN "out_of_stock"
    ELSE IF quantity <= min_stock THEN "low_stock"
    ELSE "in_stock"

(***************************************************************************)
(* C1..C10                                                                 *)
(***************************************************************************)

\* C1: atomicity on failure.  When a createSale that ran alone has failed on
\* an item (product missing or stock insufficient) and all its statements
\* have run, products, sales and sale_items equal their pre-call contents
\* and no transaction is left open.
C1_AtomicOnFailure ==
    \A r \in Requests :
        (FailedOnItem(r) /\ ~overlapped[r] /\ Latest(r) /\ Quiescent)
            => /\ Tables(db) = Tables(pre[r][1])
               /\ journal = <<>>

\* C2: success guarantee.  From the moment a createSale that ran alone
\* responds success, the committed store holds the header with the returned
\* saleId and invoiceNumber, exactly itemsCount sale_items rows of that sale
\* (one per submitted item), and every product's quantity is its pre-call
\* quantity less the quantities of the items that reference it.
C2_SuccessGuarantee ==
    \A r \in Requests :
        (Succeeded(r) /\ ~overlapped[r] /\ Latest(r) /\ ~crashed)
            => LET body == resp[r][1]
                   rows == ItemsOf(Committed, body.saleId)
               IN  /\ \E s \in Committed.sales : /\ s.id = body.saleId
                                                    /\ s.invoice_number = body.invoiceNumber
                   /\ body.itemsCount = Len(req[r].items)
                   /\ Cardinality(rows) = body.itemsCount
                   /\ \A p \in Products :
                        Committed.products[p].quantity
                            = pre[r][1].products[p].quantity - SumQty(req[r].items, p)

\* the payload of C3: two items of one product, each within stock, together not
SplitOversell(r) ==
    /\ req[r].kind = "sale"
    /\ Len(req[r].items) = 2
    /\ LET a == req[r].items[1]
           b == req[r].items[2]
       IN  /\ a.product_id = b.product_id
           /\ a.product_id \in Products
           /\ a.quantity <= pre[r][1].products[a.product_id].quantity
           /\ b.quantity <= pre[r][1].products[a.product_id].quantity
           /\ a.quantity + b.quantity > pre[r][1].products[a.product_id].quantity

\* C3: in one createSale with two items of the same product whose combined
\* quantity exceeds stock while neither does alone, the response is
\* InsufficientStock for the second item, and once the statements have run
\* the store is unchanged, in whatever order the store runs them.
C3_SecondItemSeesFirst ==
    \A r \in Requests :
        (SplitOversell(r) /\ ~overlapped[r] /\ resp[r] # <<>>)
            => /\ Outcome(r) = "InsufficientStock"
               /\ resp[r][1].requested = req[r].items[2].quantity
               /\ (Latest(r) /\ Quiescent) => Tables(db) = Tables(pre[r][1])

\* two createSale requests, the second arriving while the first is in progress
TwoConcurrentSales ==
    /\ req[1].kind = "sale" /\ req[2].kind = "sale"
    /\ overlapped[2]
    /\ \A o \in Requests : o > 2 => ~Started(o)

\* C4: no oversell under concurrency.  When two concurrent createSale
\* requests have both responded and their statements have run, for every
\* product the quantity in the sales that responded success does not exceed
\* the stock before them, and the final quantity is the initial quantity
\* less that total.
C4_NoOversell ==
    (TwoConcurrentSales /\ resp[1] # <<>> /\ resp[2] # <<>> /\ Quiescent)
        => \A p \in Products :
              /\ SoldUpTo(2, p) <= pre[1][1].products[p].quantity
              /\ db.products[p].quantity = pre[1][1].products[p].quantity - SoldUpTo(2, p)

\* C5: isolation between requests.  When two concurrent createSale requests
\* have both responded and their statements have run, the sales table holds
\* exactly the headers of the requests that responded success, each with one
\* row per item, stock is reduced by exactly their items, and nothing of a
\* request that responded failure is stored.
C5_AllOrNothingPerRequest ==
    (TwoConcurrentSales /\ resp[1] # <<>> /\ resp[2] # <<>> /\ Quiescent)
        => /\ journal = <<>>
           /\ {<<s.id, s.invoice_number>> : s \in db.sales}
                 = {<<resp[r][1].saleId, req[r].invoice>> :
                       r \in {o \in {1, 2} : Succeeded(o)}}
           /\ \A r \in {1, 2} :
                Succeeded(r) =>
                    Cardinality(ItemsOf(db, resp[r][1].saleId)) = Len(req[r].items)
           /\ \A i \in db.sale_items : SaleExists(db, i.sale_id)
           /\ \A p \in Products :
                db.products[p].quantity + SoldUpTo(2, p)
                    = pre[1][1].products[p].quantity

\* C6: status invariant.  Whenever the statements of the createSale and
\* voidSale requests made so far have all run, every product's status is
\* deriveStatus(quantity, min_stock).
C6_StatusDerived ==
    Quiescent =>
        \A p \in Products :
            db.products[p].status
                = deriveStatus(db.products[p].quantity, db.products[p].min_stock)


\* a sale of one line of an existing product, made while nothing was outstanding
PlainSale(r) ==
    /\ req[r].kind = "sale"
    /\ Len(req[r].items) = 1
    /\ req[r].items[1].product_id \in Products
    /\ ~overlapped[r]

SequentialSales == \A r \in Requests : Started(r) => PlainSale(r)

\* C7: sequential sales.  After successive one-line sales, each made when the
\* previous one is over: a sale that asks more than the remaining quantity
\* was refused with InsufficientStock carrying the available and requested
\* amounts, every other sale succeeded, and the product is left with its
\* initial quantity less the quantity sold and the status derived from it
\* (out_of_stock at 0, low_stock up to min_stock, else in_stock).
C7_SequentialSales ==
    (SequentialSales /\ Quiescent /\ Started(1))
        => /\ \A r \in Requests :
                Started(r) =>
                    LET item == req[r].items[1]
                        remaining == pre[r][1].products[item.product_id].quantity
                    IN  IF item.quantity > remaining
                        THEN resp[r] = <<[product_id |-> item.product_id,
                                          kind |-> "InsufficientStock", code |-> 400,
                                          available |-> remaining,
                                          requested |-> item.quantity]>>
                        ELSE Outcome(r) = "success"
           /\ \A p \in Products :
                LET left == pre[1][1].products[p].quantity - SoldUpTo(NumRequests, p)
                IN  /\ db.products[p].quantity = left
                    /\ db.products[p].status
                          = IF left = 0 THEN "out_of_stock"
                            ELSE IF left <= db.products[p].min_stock THEN "low_stock"
                            ELSE "in_stock"

\* the end of the scenario: a sale has emptied the stock and the next sale of
\* one unit was refused with available 0, requested 1
C7_Witness ==
    /\ SequentialSales /\ Quiescent
    /\ Succeeded(1)
    /\ Outcome(2) = "InsufficientStock"
    /\ resp[2][1].available = 0 /\ resp[2][1].requested = 1
    /\ \E p \in Products : /\ db.products[p].quantity = 0
                           /\ db.products[p].status = "out_of_stock"
                           /\ pre[1][1].products[p].quantity > 0

InFlight == pending \cup {queue[i].stmt : i \in DOMAIN queue}

C8_State ==
    /\ \A p \in Products : /\ db.products[p].quantity >= 0
                           /\ Committed.products[p].quantity >= 0
    /\ \A r \in Requests :
          Outcome(r) = "InsufficientStock" =>
              LET k == req[r].index + 1
                  item == req[r].items[k]
              IN  /\ resp[r][1].requested = item.quantity
                  /\ resp[r][1].available < item.quantity
                  /\ \A st \in InFlight :
                        (st.rid = r /\ st.op \in {"SELECT_PRODUCT", "INSERT_ITEM",
                                                   "UPDATE_PRODUCT"}) => st.k < k
                  /\ (Len(req[r].items) = 1 /\ ~overlapped[r] /\ Latest(r) /\ Quiescent)
                        => db.products = pre[r][1].products

C8_Step ==
    \A st \in pending :
        (/\ st.op = "SELECT_PRODUCT"
         /\ st \notin pending'
         /\ ~crashed'
         /\ st.p \in Products
         /\ db.products[st.p].quantity < req[st.rid].items[st.k].quantity)
            => /\ resp'[st.rid] = <<[product_id |-> st.p,
                                     kind |-> "InsufficientStock", code |-> 400,
                                     available |-> db.products[st.p].quantity,
                                     requested |-> req[st.rid].items[st.k].quantity]>>
               /\ db' = db

C9_VoidReversesCreate ==
    (/\ Succeeded(1)
     /\ req[2].kind = "void" /\ ~overlapped[2] /\ Latest(2)
     /\ req[2].sale_id = resp[1][1].saleId
     /\ Outcome(2) = "voided"
     /\ Quiescent)
        => /\ \A p \in Products :
                db.products[p].quantity = pre[1][1].products[p].quantity
           /\ ~SaleExists(db, req[2].sale_id)
           /\ ItemsOf(db, req[2].sale_id) = {}

\* C10: idempotence of failure.  When a createSale has failed on an item and
\* the same payload is submitted again once the first call is over, the
\* second call fails too and leaves products, sales and sale_items as they
\* were before the first call.
C10_FailureIdempotent ==
    (/\ FailedOnItem(1)
     /\ req[2].kind = "sale" /\ req[2].items = req[1].items
     /\ ~overlapped[2] /\ Latest(2)
     /\ Quiescent)
        => /\ FailedOnItem(2)
           /\ Tables(db) = Tables(pre[2][1])
           /\ Tables(db) = Tables(pre[1][1])

(***************************************************************************)
(* C11..C20                                                                *)
(***************************************************************************)
\* the statements issued and not yet finished
IssuedBy(r) == {st \in InFlight : st.rid = r}

\* a body the preconditions of createSale refuse: items missing, not a list
\* or empty, grand_total missing or zero
InvalidBody(body) ==
    \/ body.items_type # "array"
    \/ body.items = <<>>
    \/ body.grand_total \in {{}, {0}}

ValidationFailure(r) ==
    /\ Len(resp[r]) = 1
    /\ resp[r][1].code = 400
    /\ resp[r][1].kind = "ValidationError"

\* C11: a createSale whose items are missing, not a list or empty, or whose
\* grand_total is missing or zero, has answered with a validation error
\* (status 400) and nothing else: it issued no BEGIN, no insert and no
\* update, no transaction is open and the store is the one it found.
C11_ValidationFirst ==
    \A r \in Requests :
        (req[r].kind = "sale" /\ InvalidBody(req[r].body)) =>
            /\ ValidationFailure(r)
            /\ IssuedBy(r) = {}
            /\ journal = <<>>
            /\ db = pre[r][1]
            /\ lastRowid = 0

C11_Witness ==
    \E r \in Requests :
        /\ req[r].kind = "sale"
        /\ req[r].body.items_type = "array" /\ req[r].body.items = <<>>
        /\ req[r].body.grand_total = {1}
        /\ ValidationFailure(r)
        /\ db = pre[r][1]

NonPositiveItem(r) ==
    /\ req[r].kind = "sale"
    /\ req[r].body.items_type = "array"
    /\ \E k \in DOMAIN req[r].items : req[r].items[k].quantity <= 0

NoRowBelowOne == \A i \in db.sale_items : i.quantity > 0

NoStockGain ==
    \A r \in Requests : req[r].kind = "sale" =>
        \A p \in Products : db.products[p].quantity <= pre[r][1].products[p].quantity

\* C12: a createSale with an item whose quantity is zero or negative has
\* answered with a validation error and issued no statement; no sale_items
\* row has a quantity below one; and no product has more stock than when the
\* createSale arrived.
C12_PositiveQuantities ==
    /\ \A r \in Requests : NonPositiveItem(r) => (ValidationFailure(r) /\ IssuedBy(r) = {})
    /\ NoRowBelowOne
    /\ NoStockGain

\* a well-formed createSale whose header or one of whose items the schema
\* refuses: a payment method outside {cash, card, online}, an item without
\* price
RefusedByStore(r) ==
    /\ req[r].kind = "sale"
    /\ ~InvalidBody(req[r].body)
    /\ \/ paymentMethod(req[r].body) \notin {"cash", "card", "online"}
       \/ \E k \in DOMAIN req[r].items : req[r].items[k].price = {}

\* C13: a createSale whose header insert or item insert the store refuses
\* never responds success, and once none of its statements is outstanding it
\* has responded with a failure, no transaction is open and nothing of it
\* is in the store.
C13_NoSwallowedError ==
    \A r \in Requests : RefusedByStore(r) =>
        /\ Outcome(r) # "success"
        /\ (pending = {} /\ queue = <<>>) =>
              /\ Len(resp[r]) = 1 /\ resp[r][1].code >= 400
              /\ journal = <<>>
              /\ Tables(db) = Tables(pre[r][1])

\* the failure responses createSale and voidSale send after BEGIN
FailedInTransaction(r) ==
    Outcome(r) \in {"ProductNotFound", "InsufficientStock", "SaleNotFound"}

\* C14: when createSale or voidSale has sent a failure response after its
\* transaction was opened, its ROLLBACK has already run: none of its
\* statements (the ROLLBACK, an insert, an update) is still to be executed.
C14_RollbackBeforeResponse ==
    \A r \in Requests : FailedInTransaction(r) => IssuedBy(r) = {}

\* processing a list in order against a stock: the index of the first item
\* that names a missing product or asks for more than what the items before
\* it have left, 0 when there is none
RECURSIVE FirstFailing(_, _, _)
FirstFailing(items, stock, k) ==
    IF k > Len(items) THEN 0
    ELSE LET it == items[k]
         IN  IF it.product_id \notin Products THEN k
             ELSE IF stock[it.product_id] < it.quantity THEN k
             ELSE FirstFailing(items,
                               [stock EXCEPT ![it.product_id] = @ - it.quantity],
                               k + 1)

StockAtArrival(r) == [p \in Products |-> pre[r][1].products[p].quantity]

\* the item whose failure createSale reported: the one after those that passed
ReportedItem(r) == req[r].index + 1

\* C15: when a createSale with positive quantities and prices has reported a missing
\* product or an insufficient stock, the item it reported is the first one,
\* in list order, that names a missing product or asks for more than the
\* stock left by the items before it, and no statement of a later item has
\* been issued.
C15_ListOrder ==
    \A r \in Requests :
        (/\ FailedOnItem(r)
         /\ \A k \in DOMAIN req[r].items :
                req[r].items[k].quantity >= 1 /\ req[r].items[k].price # {}) =>
            /\ ReportedItem(r) = FirstFailing(req[r].items, StockAtArrival(r), 1)
            /\ \A st \in IssuedBy(r) : st.k <= ReportedItem(r)

\* the part of C15 that is about the order of the lookups alone
LookupsInOrder ==
    \A r \in Requests :
        /\ \A st \in IssuedBy(r) : st.k <= req[r].index + 1
        /\ FailedOnItem(r) => \A st \in IssuedBy(r) : st.k <= ReportedItem(r)

\* a void by an admin of a sale id that is in no row of sales, made when
\* nothing was outstanding and not followed by another request
VoidOfMissingSale(r) ==
    /\ req[r].kind = "void"
    /\ isAdmin(req[r].caller) = 0 /\ verifyToken(req[r].caller) = 0
    /\ ~SaleExists(pre[r][1], req[r].sale_id)
    /\ ~overlapped[r]
    /\ Latest(r)

\* C16: a voidSale of a sale id that does not exist answers nothing but
\* SaleNotFound (status 404), and once its statements have run products,
\* sales and sale_items are as it found them and no transaction is open.
C16_VoidOfMissingSale ==
    \A r \in Requests : VoidOfMissingSale(r) =>
        /\ ~crashed
        /\ resp[r] # <<>> => resp[r] = <<[kind |-> "SaleNotFound", code |-> 404]>>
        /\ Quiescent =>
              /\ resp[r] # <<>>
              /\ journal = <<>>
              /\ Tables(db) = Tables(pre[r][1])

C16_Witness ==
    \E r \in Requests :
        /\ VoidOfMissingSale(r)
        /\ Quiescent
        /\ Outcome(r) = "SaleNotFound"
        /\ db.sales # {} /\ db.sale_items # {}

\* C17: voidSale responds success only when its COMMIT succeeded: whenever a
\* void has responded success the sale and its items are gone from the
\* durable store; a void whose COMMIT failed responds with a failure.
C17_VoidSuccessIsDurable ==
    \A r \in Requests :
        (req[r].kind = "void" /\ Outcome(r) = "voided" /\ Latest(r)) =>
            /\ ~SaleExists(Committed, req[r].sale_id)
            /\ ItemsOf(Committed, req[r].sale_id) = {}

\* C18: when a createSale that ran alone has responded that its COMMIT
\* failed (status 500) and its statements have run, no header, item or
\* stock decrement of it is in the durable store.
C18_FailedCommitLeavesNothing ==
    \A r \in Requests :
        (/\ req[r].kind = "sale" /\ Outcome(r) = "TransactionFailed"
         /\ ~overlapped[r] /\ Latest(r) /\ Quiescent) =>
            Tables(Committed) = Tables(pre[r][1])

\* a void request by a caller without a valid token or whose role is not admin
VoidByNonAdmin(r) ==
    /\ req[r].kind = "void"
    /\ req[r].caller.token # "valid" \/ req[r].caller.role # "admin"

Refused(r) ==
    /\ Len(resp[r]) = 1
    /\ resp[r][1].code \in {401, 403}

\* C19: a void request by a caller who is not an admin, or has no valid
\* token, is refused (status 401 or 403) and issues no statement; when it
\* came with nothing outstanding and no request followed it, products, sales
\* and sale_items are as it found them.
C19_VoidIsAdminOnly ==
    \A r \in Requests : VoidByNonAdmin(r) =>
        /\ Refused(r)
        /\ IssuedBy(r) = {}
        /\ (~overlapped[r] /\ Latest(r)) => (db = pre[r][1] /\ journal = <<>>)

C19_Witness ==
    \E r \in Requests :
        /\ VoidByNonAdmin(r)
        /\ req[r].caller.role = "user"
        /\ SaleExists(db, req[r].sale_id)
        /\ ItemsOf(db, req[r].sale_id) # {}
        /\ Refused(r)
        /\ ~overlapped[r]

\* the rule of the data model, as the claim words it
Agrees(status, quantity, min_stock) ==
    /\ status \in {"in_stock", "low_stock", "out_of_stock"}
    /\ status = "out_of_stock" <=> quantity = 0
    /\ status = "low_stock" <=> (0 < quantity /\ quantity <= min_stock)

\* C20: sale processing, product creation and product update compute the
\* same status as the rule (out_of_stock iff quantity = 0, low_stock iff
\* 0 < quantity <= min_stock, in_stock otherwise) for every quantity and
\* min_stock from 0 up; every product row written by a creation, an update or
\* a sale, and every stock update a sale has issued, carries that status.
C20_StatusAgreement ==
    /\ \A quantity \in 0..(DefaultMinStock + 1), min_stock \in 0..DefaultMinStock :
          /\ Agrees(newStatus(quantity, min_stock), quantity, min_stock)
          /\ Agrees(createStatus(quantity, min_stock), quantity, min_stock)
          /\ Agrees(updateStatus(quantity, min_stock), quantity, min_stock)
    /\ \A p \in Products :
          Agrees(db.products[p].status, db.products[p].quantity, db.products[p].min_stock)
    /\ \A st \in InFlight :
          st.op = "UPDATE_PRODUCT" => Agrees(st.s, st.n, db.products[st.p].min_stock)

C20_Witness ==
    \E r \in Requests, p \in Products :
        /\ req[1].kind = "update" /\ Outcome(1) = "updated"
        /\ Succeeded(r) /\ Quiescent
        /\ r > 1
        /\ db.products[p].min_stock = MaxMinStock
        /\ db.products[p].status = "low_stock"
        /\ pre[r][1].products[p].status = "in_stock"

(***************************************************************************)
(* C21..C30                                                                *)
(***************************************************************************)
RECURSIVE SumRows(_)
SumRows(rows) ==
    IF rows = {} THEN 0
    ELSE LET x == CHOOSE y \in rows : TRUE
         IN  x.quantity + SumRows(rows \ {x})

\* the sale_items rows of existing sales that reference product p
SoldRows(d, p) == {i \in d.sale_items : i.product_id = p /\ SaleExists(d, i.sale_id)}

\* each request was made when the previous ones were over, and all are over
AllCompleted ==
    /\ Started(1)
    /\ \A r \in Requests : Started(r) => ~overlapped[r]
    /\ Quiescent

\* C27: stock conservation.  After createSale and voidSale operations, each
\* made when the previous one was over and all of them over, every
\* product's quantity plus the quantities of the sale_items rows of existing
\* sales that reference it equals the quantity it had before the first one.
C27_StockConservation ==
    AllCompleted =>
        \A p \in Products :
            db.products[p].quantity + SumRows(SoldRows(db, p))
                = pre[1][1].products[p].quantity

\* a createSale or voidSale request whose token verifyToken accepted
Authenticated(r) ==
    /\ req[r].kind \in {"sale", "void"}
    /\ verifyToken(req[r].caller) = 0

\* the part of C29 that says never two
NeverTwoResponses == \A r \in Requests : Len(resp[r]) <= 1

\* C29: every createSale and voidSale request that passed authentication
\* has sent at most one response, and exactly one once no statement is
\* outstanding.
C29_ExactlyOneResponse ==
    \A r \in Requests : Authenticated(r) =>
        /\ Len(resp[r]) <= 1
        /\ (pending = {} /\ queue = <<>>) => Len(resp[r]) = 1

\* an optional field of the body and the column it was stored in: the default
\* when the field is absent, the caller's value when it is there
Stored(field, column, dflt) ==
    /\ field = {} => column = dflt
    /\ field # {} => column = valueOf(field)

\* the same for a text, where the caller's value is one that is not empty
StoredText(field, column, dflt) ==
    /\ field = {} => column = dflt
    /\ (field # {} /\ field # {""}) => column = valueOf(field)

\* C23: when a createSale has responded success, the committed store holds
\* its header with customer_name, subtotal, tax, discount and payment_method
\* as the caller gave them, and 'Walk-in Customer', 0, 0, 0 and 'cash' for
\* the ones that were absent; user_id is the id of the caller's token;
\* grand_total is stored as supplied and the response returns it.
C23_HeaderDefaults ==
    \A r \in Requests : (Succeeded(r) /\ ~crashed) =>
        LET body == req[r].body
        IN  /\ resp[r][1].grandTotal = valueOf(body.grand_total)
            /\ \E s \in Committed.sales :
                  /\ s.id = resp[r][1].saleId
                  /\ s.user_id = {req[r].caller.userId}
                  /\ s.grand_total = valueOf(body.grand_total)
                  /\ StoredText(body.customer_name, s.customer_name, "Walk-in Customer")
                  /\ Stored(body.subtotal, s.subtotal, 0)
                  /\ Stored(body.tax, s.tax, 0)
                  /\ Stored(body.discount, s.discount, 0)
                  /\ StoredText(body.payment_method, s.payment_method, "cash")

\* a committed sale by the admin with a customer name absent, a subtotal
\* and a payment method given
C23_Witness ==
    /\ Succeeded(1) /\ Quiescent
    /\ req[1].caller = Admin
    /\ req[1].body.customer_name = {}
    /\ req[1].body.subtotal = {2}
    /\ req[1].body.tax = {}
    /\ req[1].body.payment_method = {"card"}
    /\ \E s \in db.sales : /\ s.customer_name = "Walk-in Customer"
                            /\ s.subtotal = 2 /\ s.tax = 0
                            /\ s.user_id = {1}
                            /\ s.payment_method = "card"

\* C24: every stored sale item's total is the total the caller supplied for
\* it whenever one was supplied, an explicit 0 included, and quantity x
\* price when none was supplied.
C24_ItemTotal ==
    \A r \in Requests : req[r].kind = "sale" =>
        \A i \in ItemsOf(db, req[r].sale_id) :
            \E k \in DOMAIN req[r].items :
                LET item == req[r].items[k]
                IN  /\ i.product_id = item.product_id
                    /\ i.quantity = item.quantity
                    /\ i.total = IF item.total # {} THEN valueOf(item.total)
                                 ELSE item.quantity * valueOf(item.price)

\* C25: after product create and product update requests every product row
\* has quantity >= 0 and min_stock >= 0 and the status
\* deriveStatus(quantity, min_stock).
C25_ProductRowsValid ==
    \A p \in DOMAIN db.products :
        /\ db.products[p].quantity >= 0
        /\ db.products[p].min_stock >= 0
        /\ db.products[p].status
              = deriveStatus(db.products[p].quantity, db.products[p].min_stock)

\* the part of C25 that is about the status alone
StatusAlwaysDerived ==
    \A p \in DOMAIN db.products :
        db.products[p].status
            = deriveStatus(db.products[p].quantity, db.products[p].min_stock)

\* a product update that succeeded and whose form carried no quantity, of a
\* product whose quantity was not negative
UpdateWithoutQuantity(r) ==
    /\ req[r].kind = "update"
    /\ req[r].body.quantity = {}
    /\ Outcome(r) = "updated"
    /\ pre[r][1].products[req[r].body.id].quantity >= 0

\* C26: a product update request that does not supply quantity leaves the
\* product's stored quantity and status as they were.
C26_QuantityOnlyWhenSupplied ==
    \A r \in Requests : (UpdateWithoutQuantity(r) /\ Latest(r)) =>
        LET id == req[r].body.id
        IN  /\ db.products[id].quantity = pre[r][1].products[id].quantity
            /\ db.products[id].status = pre[r][1].products[id].status

\* two voids of the same existing sale, the second arriving while the first
\* is in progress
TwoConcurrentVoids ==
    /\ req[1].kind = "void" /\ req[2].kind = "void"
    /\ req[1].sale_id = req[2].sale_id
    /\ SaleExists(pre[1][1], req[1].sale_id)
    /\ isAdmin(req[1].caller) = 0 /\ isAdmin(req[2].caller) = 0
    /\ overlapped[2]

\* the part of C28 that says at most one void reports success
AtMostOneVoided ==
    TwoConcurrentVoids => ~(Outcome(1) = "voided" /\ Outcome(2) = "voided")

\* C28: of two concurrent voidSale requests for the same sale at most one
\* reports success, and once no statement is outstanding each product's
\* stock is what it was before them plus the quantities of the sale's items,
\* restored once.
C28_RestoredExactlyOnce ==
    TwoConcurrentVoids =>
        /\ ~(Outcome(1) = "voided" /\ Outcome(2) = "voided")
        /\ (pending = {} /\ queue = <<>>) =>
              \A p \in Products :
                  db.products[p].quantity
                      = pre[1][1].products[p].quantity
                          + SumRows({i \in ItemsOf(pre[1][1], req[1].sale_id) :
                                        i.product_id = p})

\* C30: the default admin account is protected.  After any user-management
\* requests (PUT /api/users/:id, DELETE /api/users/:id,
\* PUT /api/users/:id/status) the user with id 1 still exists and its
\* username, email, role, branch and status are those it was created with.
C30_DefaultAdminProtected ==
    /\ 1 \in DOMAIN db.users
    /\ db.users[1] = InitialUsers[1]

\* the same for the requests whose :id is written as a plain integer
PlainIds == {<<"1">>, <<"2">>, <<"3">>}

ProtectedFromPlainIds ==
    (\A r \in Requests : Started(r) => req[r].body.id \in PlainIds)
        => C30_DefaultAdminProtected

\* every sale_items row of a store references a sale and a product of it
Referential(d) ==
    \A i \in d.sale_items : SaleExists(d, i.sale_id) /\ ProductExists(d, i.product_id)

\* C22: referential integrity.  In every reachable state, in the
\* connection's view and in the committed store, each sale_items row
\* references an existing sales row and an existing product; so a product
\* that a sale item references is never deleted (the request is answered
\* with a failure) and no item outlives its sale.
C22_ReferentialIntegrity ==
    /\ Referential(db)
    /\ Referential(Committed)
    /\ \A r \in Requests :
          (req[r].kind = "product_delete" /\ referenced(pre[r][1], req[r].body.id)
              /\ ~overlapped[r])
            => Outcome(r) = "DeleteFailed"

\* a sold product whose deletion was refused, and is still there with the
\* item that references it
C22_Witness ==
    \E r \in Requests :
        /\ req[r].kind = "product_delete"
        /\ Outcome(r) = "DeleteFailed"
        /\ Quiescent
        /\ ProductExists(db, req[r].body.id)
        /\ \E i \in db.sale_items : i.product_id = req[r].body.id

\* an admin has asked to void the sale
VoidRequested(id) ==
    \E r \in Requests : /\ req[r].kind = "void"
                         /\ req[r].sale_id = id
                         /\ Middleware(req[r].caller) = <<>>

\* C21 as stated: a committed sale is immutable except via void.  In every
\* step, every row of sales and of sale_items in the committed store is in
\* the committed store after the step with every field as it was, unless a
\* voidSale of that sale has been requested; the steps are those of later
\* sales, of product updates and deletions and of the update, deactivation
\* and deletion of the user who made the sale.
C21_ImmutableOnceCommitted ==
    [][/\ \A s \in Committed.sales :
            VoidRequested(s.id) \/ s \in Committed'.sales
       /\ \A i \in Committed.sale_items :
            VoidRequested(i.sale_id) \/ i \in Committed'.sale_items]_vars

\* C21, amended: a committed sale is immutable except via void and except
\* for user_id, which the deletion of the user who made the sale sets to
\* null.  In every step every committed sales row stays as it was, or stays
\* with user_id null and every other field as it was when its user is no
\* longer in users, unless a voidSale of that sale has been requested; and
\* every committed sale_items row stays as it was unless a voidSale of its
\* sale has been requested.
C21_ImmutableButForUserId ==
    [][/\ \A s \in Committed.sales :
            \/ VoidRequested(s.id)
            \/ s \in Committed'.sales
            \/ /\ [s EXCEPT !.user_id = {}] \in Committed'.sales
               /\ \A u \in s.user_id : u \notin DOMAIN Committed'.users
       /\ \A i \in Committed.sale_items :
            VoidRequested(i.sale_id) \/ i \in Committed'.sale_items]_vars

\* the user who made a sale has been deleted: the sale and its item are
\* there, with user_id null
C21_Witness ==
    \E r \in Requests :
        /\ req[r].kind = "user_delete" /\ Outcome(r) = "deleted"
        /\ Quiescent
        /\ \E s \in db.sales : /\ s.user_id = {}
                                /\ s.customer_name = "Walk-in Customer"
                                /\ ItemsOf(db, s.id) # {}

(***************************************************************************)
(* Claims C31..C36                                                         *)
(***************************************************************************)
\* a product update that succeeded and that no later request followed
LastUpdate(r) ==
    /\ req[r].kind = "update"
    /\ Outcome(r) = "updated"
    /\ Latest(r)

\* C36: product update stores the caller's min_stock for every integer
\* min_stock >= 0, 0 included, and stores the default 5 only when min_stock
\* is absent (product create parses the field with the same expression).
C36_MinStockStored ==
    \A r \in Requests :
        (LastUpdate(r) /\ \A n \in req[r].body.min_stock : n >= 0) =>
            db.products[req[r].body.id].min_stock
                = IF req[r].body.min_stock = {} THEN DefaultMinStock
                  ELSE valueOf(req[r].body.min_stock)

\* the part of C36 that holds: every min_stock >= 1 is stored as given, and
\* an absent one as 5
MinStockStoredUnlessZero ==
    \A r \in Requests :
        (LastUpdate(r) /\ \A n \in req[r].body.min_stock : n >= 1) =>
            db.products[req[r].body.id].min_stock
                = IF req[r].body.min_stock = {} THEN DefaultMinStock
                  ELSE valueOf(req[r].body.min_stock)

\* an earlier request set the account of r's caller inactive, or deleted it
BarredBefore(r) ==
    \E o \in Requests :
        /\ o < r
        /\ req[o].kind \in {"user_status", "user_update", "user_delete"}
        /\ keyOf(req[o].body.id) = {req[r].caller.userId}
        /\ \/ /\ req[o].kind = "user_status" /\ Outcome(o) = "updated"
              /\ req[o].body.status = "inactive"
           \/ /\ req[o].kind = "user_update" /\ Outcome(o) = "updated"
              /\ req[o].body.form.status = "inactive"
           \/ req[o].kind = "user_delete" /\ Outcome(o) = "deleted"

\* C35: once an account has been set inactive or deleted, no later createSale
\* by that user succeeds, the token it carries having been issued before.
C35_BarredAccountRefused ==
    \A r \in Requests :
        (req[r].kind = "sale" /\ BarredBefore(r)) => Outcome(r) # "success"

\* the part of C35 that holds: after the deletion of the account no sale by
\* that user succeeds (the INSERT fails on the foreign key)
DeletedAccountNeverSells ==
    \A r \in Requests :
        (/\ req[r].kind = "sale"
         /\ \E o \in Requests : /\ o < r
                                 /\ req[o].kind = "user_delete"
                                 /\ Outcome(o) = "deleted"
                                 /\ keyOf(req[o].body.id) = {req[r].caller.userId})
            => Outcome(r) # "success"

\* the account a login request names, in the store the request found
LoginRows(r) == usersWhereEmail(pre[r][1], req[r].body.email)

TokenIssued(r) == resp[r] # <<>> /\ "token" \in DOMAIN resp[r][1]

\* C34: login issues a token only for an existing account whose status is
\* 'active' and whose password matches, the token being that account's; an
\* inactive account is refused with 403 even with the correct password; an
\* unknown email, and a wrong password for an active account, are refused
\* with 401; no refusal carries a token.
C34_LoginIssuesToken ==
    \A r \in Requests : req[r].kind = "login" =>
        LET users == pre[r][1].users
            given == req[r].body
            matches(u) == users[u].password = hashSync(given.password)
        IN  /\ Len(resp[r]) = 1
            /\ TokenIssued(r) =>
                  /\ resp[r][1].code = 200
                  /\ \E u \in LoginRows(r) :
                        /\ users[u].status = "active"
                        /\ matches(u)
                        /\ resp[r][1].token = sign(u, users[u])
            /\ resp[r][1].code # 200 => ~TokenIssued(r)
            /\ (given.email # "" /\ given.password # "") =>
                  /\ (\E u \in LoginRows(r) : users[u].status # "active")
                        => resp[r][1].code = 403
                  /\ LoginRows(r) = {} => resp[r][1].code = 401
                  /\ (\E u \in LoginRows(r) :
                          users[u].status = "active" /\ ~matches(u))
                        => resp[r][1].code = 401

\* two logins: an inactive account refused 403 with its correct password,
\* and a token issued to an active account
C34_Witness ==
    \E r, o \in Requests :
        /\ req[r].kind = "login" /\ req[o].kind = "login"
        /\ \E u \in LoginRows(r) :
              /\ pre[r][1].users[u].status = "inactive"
              /\ pre[r][1].users[u].password = hashSync(req[r].body.password)
        /\ resp[r][1].code = 403 /\ ~TokenIssued(r)
        /\ TokenIssued(o)

\* the accounts with role 'admin'
Admins(d) == {u \in DOMAIN d.users : d.users[u].role = "admin"}

\* C32: no request made without an admin token creates a user row with role
\* 'admin': after a request whose caller does not pass verifyToken and
\* isAdmin, every admin account is one that was an admin account before it.
C32_AdminsOnlyFromAdmins ==
    \A r \in Requests :
        (Started(r) /\ Latest(r) /\ Middleware(req[r].caller) # <<>>)
            => Admins(db) \subseteq Admins(pre[r][1])

\* the part of C32 that holds: POST /api/users without an admin token
\* creates nothing
CreateUserNeedsAdmin ==
    \A r \in Requests :
        (req[r].kind = "user_create" /\ Latest(r) /\ Middleware(req[r].caller) # <<>>)
            => db.users = pre[r][1].users

\* the caller of r holds an admin token and the account of the token is,
\* when the request arrives, an active admin account
ByActiveAdmin(r) ==
    /\ Middleware(req[r].caller) = <<>>
    /\ req[r].caller.userId \in Admins(pre[r][1])
    /\ pre[r][1].users[req[r].caller.userId].status = "active"

\* the account of r's caller is in users and active
StillActive(r) ==
    /\ req[r].caller.userId \in DOMAIN db.users
    /\ db.users[req[r].caller.userId].status = "active"

\* C31: an admin can never delete their own account nor make it inactive
\* through DELETE /api/users/:id, PUT /api/users/:id/status or
\* PUT /api/users/:id: after such a request by an active admin the admin's
\* account exists and is active.
C31_AdminKeepsOwnAccount ==
    \A r \in Requests :
        (/\ req[r].kind \in {"user_delete", "user_status", "user_update"}
         /\ Latest(r)
         /\ ByActiveAdmin(r)) => StillActive(r)

\* the part of C31 that holds, the id being written as a plain integer:
\* DELETE and PUT .../status leave the caller's account in place and active
SelfGuardedDeleteAndStatus ==
    \A r \in Requests :
        (/\ req[r].kind \in {"user_delete", "user_status"}
         /\ Latest(r)
         /\ ByActiveAdmin(r)) => StillActive(r)

\* the store without the sales, and their items, of users other than caller
OwnStore(d, caller) ==
    LET own == {s \in d.sales : s.user_id = {caller.userId}}
    IN  [d EXCEPT !.sales = own,
                  !.sale_items = {i \in @ : \E s \in own : s.id = i.sale_id}]

\* a reading request by a caller who is authenticated and not an admin
ReadByNonAdmin(r) ==
    /\ req[r].kind \in {"sale_list", "sale_get", "report_summary", "report_daily",
                        "report_monthly"}
    /\ verifyToken(req[r].caller) = 0
    /\ req[r].caller.role # "admin"

\* C33: what a non-admin caller gets from the sale listing, the single-sale
\* fetch and the summary, daily and monthly reports is what the same request
\* gets from the store without the other users' sales, and fetching another
\* user's sale is refused with 403.
C33_SalesVisibility ==
    \A r \in Requests : ReadByNonAdmin(r) =>
        /\ resp[r] = <<readAnswer(OwnStore(pre[r][1], req[r].caller), req[r].kind,
                                  req[r].caller, req[r].body)>>
        /\ (/\ req[r].kind = "sale_get"
            /\ \E s \in pre[r][1].sales :
                  s.id = req[r].body.id /\ s.user_id # {req[r].caller.userId})
              => resp[r][1].code = 403

\* the part of C33 that holds: the listing and the three reports are the
\* same without the other users' sales
ListsAndReportsOwnOnly ==
    \A r \in Requests : (ReadByNonAdmin(r) /\ req[r].kind # "sale_get") =>
        resp[r] = <<readAnswer(OwnStore(pre[r][1], req[r].caller), req[r].kind,
                               req[r].caller, req[r].body)>>

\* the part of C33 that holds: another user's sale is refused with 403 and
\* nothing of it is in the response
OthersSaleRefused ==
    \A r \in Requests :
        (/\ ReadByNonAdmin(r)
         /\ req[r].kind = "sale_get"
         /\ \E s \in pre[r][1].sales :
               s.id = req[r].body.id /\ s.user_id # {req[r].caller.userId})
            => resp[r] = <<[kind |-> "PermissionDenied", code |-> 403]>>

====
